---- MODULE Spec2Model ----
(***************************************************************************)
(* Confessions_Anonymous: the client view-model (App), the create-post     *)
(* modal, the AI analysis wrapper and the remote data-access module,       *)
(* as one state machine.                                                   *)
(*                                                                         *)
(* Strings of the program that are inspected character by character (a     *)
(* confession's text, its tags, the search query) are sequences of         *)
(* one-character strings.  A JavaScript `undefined` of a string-valued     *)
(* field is the token Undefined; an absent pollOptions list is <<>> (the   *)
(* modal never produces a poll with no option).                            *)
(***************************************************************************)
EXTENDS Integers, Sequences, FiniteSets, TLC

\* ------------------------------------------------------------------ bounds
MaxTally == 1
MaxReactXp == 2
MaxComments == 1
MaxIds == 1
MaxPending == 1

\* ------------------------------------------------------- program constants
XP_POST == 20
RECORDING_LIMIT == 10
XP_REACT == 2
XP_COMMENT == 5
XP_VOTE == 5
XP_PER_LEVEL == 100

Undefined == "undefined"

ReactionType == {"love", "funny", "sad", "shock", "fire"}

ZeroReactions == [k \in ReactionType |-> 0]

\* ----------------------------------------------------------------- helpers
Max(a, b) == IF a >= b THEN a ELSE b

RECURSIVE SumOver(_, _)
SumOver(f, S) ==
    IF S = {} THEN 0
    ELSE LET k == CHOOSE x \in S : TRUE IN f[k] + SumOver(f, S \ {k})

\* Object.values(reactions).reduce((x, y) => x + y, 0)
TotalReactions(r) == SumOver(r, ReactionType)

\* obj[key] of a JavaScript object used as a map: undefined when absent.
Lookup(m, k) == IF k \in DOMAIN m THEN m[k] ELSE Undefined

\* { ...m, [k]: v }
Put(m, k, v) == [x \in DOMAIN m \cup {k} |-> IF x = k THEN v ELSE m[x]]

\* delete m[k]
Delete(m, k) == [x \in DOMAIN m \ {k} |-> m[x]]

EmptyMap == [x \in {} |-> Undefined]

\* Array.prototype.find(c => c.id === id): the index of the first match, 0 if none.
FindIndex(list, id) ==
    IF \E i \in 1..Len(list) : list[i].id = id
    THEN CHOOSE i \in 1..Len(list) :
            /\ list[i].id = id
            /\ \A j \in 1..(i - 1) : list[j].id # id
    ELSE 0

Ids(list) == {list[i].id : i \in 1..Len(list)}

\* ------------------------------------------------- remote data-access module
Null == "null"

\* x || null, x || undefined on a string-valued field (the empty string is falsy)
OrNull(x) == IF x = Undefined \/ x = Null \/ x = "" THEN Null ELSE x
OrUndefined(x) == IF x = Undefined \/ x = Null \/ x = "" THEN Undefined ELSE x

\* the row object insertConfession hands to supabase.insert
ToRow(c) ==
    [id |-> c.id, type |-> c.type, text |-> c.text,
     image |-> OrNull(c.image),
     poll_options |-> c.pollOptions,
     timestamp |-> c.timestamp,
     reactions |-> c.reactions,
     comments |-> c.comments,
     sentiment |-> c.sentiment, emoji |-> c.emoji, tags |-> c.tags,
     color_theme |-> c.colorTheme,
     author_avatar |-> c.authorAvatar,
     is_safe |-> c.isSafe]

\* the object fetchConfessions (and the realtime callback) builds from a row
FromRow(row) ==
    [id |-> row.id, type |-> row.type, text |-> row.text,
     image |-> OrUndefined(row.image),
     audio |-> Undefined, video |-> Undefined,
     pollOptions |-> row.poll_options,
     timestamp |-> row.timestamp,
     reactions |-> row.reactions,
     comments |-> row.comments,
     sentiment |-> row.sentiment, emoji |-> row.emoji, tags |-> row.tags,
     colorTheme |-> row.color_theme,
     authorAvatar |-> row.author_avatar,
     isSafe |-> row.is_safe,
     flagReason |-> Undefined]

\* the rows of a table (id -> row) ordered by timestamp, descending
RECURSIVE OrderByTimestampDesc(_, _)
OrderByTimestampDesc(table, S) ==
    IF S = {} THEN <<>>
    ELSE LET top == CHOOSE i \in S :
                      \A j \in S : \/ table[i].timestamp > table[j].timestamp
                                   \/ (table[i].timestamp = table[j].timestamp /\ i <= j)
         IN <<table[top]>> \o OrderByTimestampDesc(table, S \ {top})

\* a slip of fetchConfessions: the rows mapped without looking at `error`
fetchConfessionsUnchecked(table, ok) ==
    LET rows == OrderByTimestampDesc(table, DOMAIN table)
    IN [i \in 1..Len(rows) |-> FromRow(rows[i])]

\* fetchConfessions: [] when the backend reports an error, else the mapped rows
fetchConfessions(table, ok) ==
    IF ~ok THEN <<>>
    ELSE LET rows == OrderByTimestampDesc(table, DOMAIN table)
         IN [i \in 1..Len(rows) |-> FromRow(rows[i])]

\* updateConfession's updateData: only the truthy members of `updates` are sent
\* (a member is <<>> when absent and <<value>> when present)
UpdateData(updates) ==
    [reactions |-> updates.reactions,
     comments |-> updates.comments,
     poll_options |-> updates.pollOptions]

\* a slip of the backend's update: tallies merged with the row's, the larger kept
ApplyUpdateMerged(row, updateData) ==
    [row EXCEPT
       !.reactions = IF updateData.reactions # <<>>
                     THEN [t \in DOMAIN @ |->
                             IF @[t] > updateData.reactions[1][t] THEN @[t]
                             ELSE updateData.reactions[1][t]]
                     ELSE @,
       !.comments = IF updateData.comments # <<>> THEN updateData.comments[1] ELSE @,
       !.poll_options = IF updateData.poll_options # <<>> THEN updateData.poll_options[1] ELSE @]

\* the row after supabase.update(updateData).eq('id', id)
ApplyUpdate(row, updateData) ==
    [row EXCEPT
       !.reactions = IF updateData.reactions # <<>> THEN updateData.reactions[1] ELSE @,
       !.comments = IF updateData.comments # <<>> THEN updateData.comments[1] ELSE @,
       !.poll_options = IF updateData.poll_options # <<>> THEN updateData.poll_options[1] ELSE @]

NoUpdates == [reactions |-> <<>>, comments |-> <<>>, pollOptions |-> <<>>]

\* what insertConfession and updateConfession resolve with, given the `error`
\* member of the backend's answer
insertConfessionReturns(error) == IF error THEN FALSE ELSE TRUE
updateConfessionReturns(error) == IF error THEN FALSE ELSE TRUE

\* ------------------------------------------------------ AI analysis wrapper
Sentiments == {"happy", "sad", "angry", "funny", "neutral", "romantic"}

\* the object the catch block of analyzeConfession returns (emoji by name)
Fallback ==
    [sentiment |-> "neutral", emoji |-> "neutral_face",
     tags |-> << <<"a","n","o","n","y","m","o","u","s">>, <<"s","t","u","d","e","n","t">> >>,
     colorTheme |-> "#64748b", isSafe |-> TRUE, flagReason |-> Undefined]

\* results the model may return
SafeResult ==
    [sentiment |-> "happy", emoji |-> "smile", tags |-> << <<"f","u","n">> >>,
     colorTheme |-> "#ff0000", isSafe |-> TRUE, flagReason |-> Undefined]
UnsafeResult ==
    [sentiment |-> "angry", emoji |-> "rage", tags |-> << <<"m","a","d">> >>,
     colorTheme |-> "#000000", isSafe |-> FALSE, flagReason |-> "bullying"]
AIResults == {SafeResult, UnsafeResult}

\* What ai.models.generateContent may do: reject, or resolve with a response whose
\* text is undefined (<<>>), the empty string, not JSON, or the JSON of a result.
AIResponses ==
    {[rejected |-> TRUE, text |-> <<>>]}
    \cup {[rejected |-> FALSE, text |-> t] : t \in {<<>>, <<"">>, <<"garbage">>}}
    \cup {[rejected |-> FALSE, text |-> <<"json", r>>] : r \in AIResults}

\* if (response.text): undefined and "" are falsy
HasText(response) == response.text # <<>> /\ response.text # <<"">>

\* JSON.parse(response.text) throws unless the text is JSON
Parses(text) == Len(text) = 2 /\ text[1] = "json"

\* what a call that threw carries in place of a result
NoResult ==
    [sentiment |-> Undefined, emoji |-> Undefined, tags |-> <<>>,
     colorTheme |-> Undefined, isSafe |-> FALSE, flagReason |-> Undefined]

\* The try block of analyzeConfession: what it returns, or that it threw.
\* Neither text nor imageBase64 decides the outcome: both only go into the request.
TryAnalyze(text, imageBase64, response) ==
    IF response.rejected
    THEN [threw |-> TRUE, value |-> NoResult]            \* the await throws
    ELSE IF HasText(response)
         THEN IF Parses(response.text)
              THEN [threw |-> FALSE, value |-> response.text[2]]
              ELSE [threw |-> TRUE, value |-> NoResult]  \* JSON.parse throws
         ELSE [threw |-> TRUE, value |-> NoResult]       \* throw new Error("No response from AI")

\* a slip of analyzeConfession: the error handed on (catch rethrows, as in
\* generateStyledImage)
analyzeConfessionRethrow(text, imageBase64, response) ==
    TryAnalyze(text, imageBase64, response)

\* analyzeConfession: the catch block turns every throw into the fallback
analyzeConfession(text, imageBase64, response) ==
    LET tried == TryAnalyze(text, imageBase64, response)
    IN IF tried.threw THEN [threw |-> FALSE, value |-> Fallback] ELSE tried

\* ------------------------------------------------------------- strings
Chars == {"a", "A", "b", " "}

\* String.prototype.toLowerCase, character by character
LowerChar(ch) == IF ch = "A" THEN "a" ELSE ch
toLowerCase(str) == [i \in 1..Len(str) |-> LowerChar(str[i])]

IsSpace(ch) == ch = " "

\* String.prototype.trim: drop the white space at both ends
RECURSIVE TrimStart(_)
TrimStart(str) ==
    IF str # <<>> /\ IsSpace(Head(str)) THEN TrimStart(Tail(str)) ELSE str
RECURSIVE TrimEnd(_)
TrimEnd(str) ==
    IF str # <<>> /\ IsSpace(str[Len(str)])
    THEN TrimEnd(SubSeq(str, 1, Len(str) - 1)) ELSE str
trim(str) == TrimEnd(TrimStart(str))

\* String.prototype.includes
includes(str, q) ==
    \E i \in 0..(Len(str) - Len(q)) : SubSeq(str, i + 1, i + Len(q)) = q

\* ------------------------------------------------------------- view-model
VARIABLES
    remote,           \* the backend's confessions table: id -> row
    localStorage,     \* 'uni_confessions_user_session_v2': <<>> or <<session>>
    isLoading,        \* App: isLoading
    confessions,      \* App: confessions
    userSession,      \* App: userSession
    activeTab,        \* App: activeTab
    searchQuery,      \* App: searchQuery
    isModalOpen,      \* App: isModalOpen
    isAnalyzing,      \* CreatePostModal: isAnalyzing (of the mounted modal)
    pendingAnalysis,  \* handleSubmit calls awaiting analyzeConfession
    pendingInserts,   \* handlePost calls awaiting insertConfession
    pendingUpdates,   \* handleReact/handleComment/handleVote calls awaiting updateConfession
    nextId,           \* the next fresh id (Math.random) and timestamp (Date.now)
    loaded,           \* history: <<>> or <<what loadData put into the state>>
    awards,           \* history: post id -> number of +2 awards handleReact gave for it
    aiIn,             \* a call of analyzeConfession on its own: <<>> or <<its arguments>>
    aiOut,            \* that call's outcome: <<>> or <<what it returned, or that it threw>>
    dataOut,          \* a data-access call on its own: <<>> or <<the call and its outcome>>
    feedFilter,       \* App: feedFilter
    events,           \* realtime INSERT events on their way to this client: rows
    fetched,          \* <<>>, or <<what the backend answered to fetchConfessions>>
    alerts,           \* history: the messages window.alert has shown
    before,           \* history: <<>> or <<the state the one call in flight started from>>
    matchmaker,       \* MatchmakerMode: the mounted instance's state and refs
    videoRecorder,    \* VideoRecorder: the mounted instance's state, refs and closures
    audioRecorder,    \* AudioRecorder: the mounted instance's state and refs
    mediaDevices,     \* navigator.mediaDevices: getUserMedia requests and live streams
    timers,           \* window: the intervals that are running
    pendingStyles,    \* takePhoto calls awaiting generateStyledImage
    pendingReads,     \* FileReader.readAsDataURL calls of the recorders in flight
    polaroids         \* localStorage 'uni_polaroids_v2': the saved photos

vars == <<remote, localStorage, isLoading, confessions, userSession, activeTab,
          searchQuery, isModalOpen, isAnalyzing, pendingAnalysis, pendingInserts,
          pendingUpdates, nextId, loaded, awards, aiIn, aiOut, dataOut, feedFilter, events, fetched, alerts,
          before, matchmaker, videoRecorder, audioRecorder, mediaDevices, timers, pendingStyles,
          pendingReads, polaroids>>

\* the state of the views that use a camera or a microphone
mediaVars == <<matchmaker, videoRecorder, audioRecorder, mediaDevices, timers,
               pendingStyles, pendingReads, polaroids>>

Avatar == "Neon Panda"

\* the session App starts with, and loadData sets when nothing is stored
DefaultSession ==
    [avatar |-> Avatar, xp |-> 0, level |-> 1,
     reactedPosts |-> EmptyMap, votedPolls |-> EmptyMap]

Tabs == {"home", "search", "matchmaker", "profile"}

\* --------------------------------------------------- what the backend holds
TextBody == <<"a", "b">>
PollBody == <<"A", " ", "b">>

SeedText(love, funny) ==
    [id |-> 1, type |-> "text", text |-> TextBody, image |-> Null,
     poll_options |-> <<>>, timestamp |-> 1,
     reactions |-> [k \in ReactionType |->
                      IF k = "love" THEN love ELSE IF k = "funny" THEN funny ELSE 0],
     comments |-> <<>>, sentiment |-> "happy", emoji |-> "smile",
     tags |-> << <<"a">> >>, color_theme |-> "#ff0000",
     author_avatar |-> "Cosmic Fox", is_safe |-> TRUE]

SeedPoll(votes) ==
    [id |-> 2, type |-> "poll", text |-> PollBody, image |-> Null,
     poll_options |-> << [id |-> "opt_0", text |-> <<"a">>, votes |-> votes],
                         [id |-> "opt_1", text |-> <<"b">>, votes |-> 0] >>,
     timestamp |-> 2, reactions |-> ZeroReactions,
     comments |-> <<>>, sentiment |-> "funny", emoji |-> "smile",
     tags |-> << <<"b">> >>, color_theme |-> "#00ff00",
     author_avatar |-> "Happy Owl", is_safe |-> TRUE]

\* Sessions an earlier page load of this client may have saved.  The saved
\* reaction map need not agree with the tallies the backend holds now: an
\* update may have failed, or another client's update may have replaced it.
Reacted ==
    [avatar |-> Avatar, xp |-> 98, level |-> 1,
     reactedPosts |-> (1 :> "love"), votedPolls |-> EmptyMap]
Voted ==
    [avatar |-> Avatar, xp |-> 195, level |-> 2,
     reactedPosts |-> EmptyMap, votedPolls |-> (2 :> "opt_0")]

\* a stream id where the code holds null
NoStream == 0

FilterType == {"cartoon", "anime", "kawaii", "sketch"}

\* a photo state holding null (photos are data URLs, kept as their two halves)
NoPhoto == <<>>

\* MatchmakerMode as it mounts (and, with mounted FALSE, when it is not rendered)
MatchmakerOff ==
    [mounted |-> FALSE, streamRef |-> NoStream, isCameraOn |-> FALSE,
     currentPhoto |-> NoPhoto, tempPhoto |-> NoPhoto, isEjecting |-> FALSE,
     isProcessing |-> FALSE, filterMode |-> "cartoon", savedPhotos |-> <<>>]

\* VideoRecorder as it mounts: `stream` is the state, `recorder` the stream of
\* the MediaRecorder in mediaRecorderRef (the one its onstop closure sees)
\* `ticks` is history: how often the interval's callback has run
VideoRecorderOff ==
    [mounted |-> FALSE, stream |-> NoStream, isRecording |-> FALSE,
     recorder |-> NoStream, recordingTime |-> 0, ticks |-> 0]

\* AudioRecorder as it mounts: `recorder` is the stream of the MediaRecorder in
\* mediaRecorderRef, `timerRef` the interval started with it
AudioRecorderOff ==
    [mounted |-> FALSE, isRecording |-> FALSE, recorder |-> NoStream,
     timerRef |-> NoStream]

\* navigator.mediaDevices with nothing requested
NoMedia == [requests |-> {}, streams |-> {}, issued |-> 0]

\* the state when App mounts, over a backend table and a stored session
\* `first` is the first id the run hands out
InitFrom(tables, stored, galleries, first) ==
    /\ dataOut = <<>>
    /\ feedFilter = "all"
    /\ events = {}
    /\ fetched = <<>>
    /\ alerts = <<>>
    /\ before = <<>>
    /\ matchmaker = MatchmakerOff
    /\ videoRecorder = VideoRecorderOff
    /\ audioRecorder = AudioRecorderOff
    /\ mediaDevices = NoMedia
    /\ timers = {}
    /\ pendingStyles = {}
    /\ pendingReads = {}
    /\ polaroids \in galleries
    /\ remote \in tables
    /\ localStorage \in stored
    /\ isLoading = TRUE
    /\ confessions = <<>>
    /\ userSession = DefaultSession
    /\ activeTab = "home"
    /\ searchQuery = <<>>
    /\ isModalOpen = FALSE
    /\ isAnalyzing = FALSE
    /\ pendingAnalysis = {}
    /\ pendingInserts = {}
    /\ pendingUpdates = {}
    /\ nextId = first
    /\ loaded = <<>>
    /\ awards = EmptyMap
    /\ aiIn = <<>>
    /\ aiOut = <<>>

\* two rows are stored, with ids 1 and 2
InitStored(tables, stored, galleries) == InitFrom(tables, stored, galleries, 3)

\* the same, with no photo saved on an earlier visit
InitWith(tables, stored) == InitStored(tables, stored, {<<>>})

Table(love, funny, votes) == (1 :> SeedText(love, funny)) @@ (2 :> SeedPoll(votes))

\* the effect that saves userSession once isLoading is false
SaveSession(session) == <<session>>

\* App's load effect: loadData
loadData(ok) ==
    /\ UNCHANGED <<aiIn, aiOut, dataOut, feedFilter, events, fetched, alerts, before, mediaVars>>
    /\ isLoading
    /\ confessions' = IF fetched # <<>> THEN fetched[1]     \* answered earlier
                      ELSE fetchConfessions(remote, ok)    \* answered just now
    /\ userSession' = IF localStorage # <<>> THEN localStorage[1] ELSE DefaultSession
    /\ isLoading' = FALSE
    /\ localStorage' = SaveSession(userSession')
    /\ loaded' = << [confessions |-> confessions', session |-> userSession'] >>
    /\ UNCHANGED <<remote, activeTab, searchQuery, isModalOpen, isAnalyzing,
                   pendingAnalysis, pendingInserts, pendingUpdates, nextId, awards>>

\* addXP's updater
addXP(prev, amount) ==
    LET newXP == prev.xp + amount
        newLevel == (newXP \div XP_PER_LEVEL) + 1
    IN [prev EXCEPT !.xp = newXP, !.level = newLevel]

\* fresh ids left for the posts and comments of a run
IdsLeft == (3 + MaxIds) - (nextId + Cardinality(pendingAnalysis))

\* prev.map(c => c.id === id ? { ...c, reactions } : c), and its siblings
WithReactions(list, id, reactions) ==
    [i \in 1..Len(list) |->
        IF list[i].id = id THEN [list[i] EXCEPT !.reactions = reactions] ELSE list[i]]
WithComments(list, id, comments) ==
    [i \in 1..Len(list) |->
        IF list[i].id = id THEN [list[i] EXCEPT !.comments = comments] ELSE list[i]]
WithPollOptions(list, id, pollOptions) ==
    [i \in 1..Len(list) |->
        IF list[i].id = id THEN [list[i] EXCEPT !.pollOptions = pollOptions] ELSE list[i]]

\* slips of "Remove reaction": the other tallies not copied; the tally not clamped
RemoveReactionNoSpread(reactions, type) ==
    [k \in ReactionType |-> IF k = type THEN Max(0, reactions[k] - 1) ELSE 0]
RemoveReactionNoClamp(reactions, type) ==
    [reactions EXCEPT ![type] = @ - 1]

\* handleReact, "Remove reaction": the updated tallies
RemoveReaction(reactions, type) ==
    [reactions EXCEPT ![type] = Max(0, @ - 1)]

\* a slip of "Add/Change reaction": the old kind's tally not decremented
ChangeReactionNoDrop(reactions, oldType, type) ==
    [reactions EXCEPT ![type] = @ + 1]

\* handleReact, "Add/Change reaction": the updated tallies
ChangeReaction(reactions, oldType, type) ==
    LET dropped == IF oldType # Undefined
                   THEN [reactions EXCEPT ![oldType] = Max(0, @ - 1)]
                   ELSE reactions
    IN [dropped EXCEPT ![type] = @ + 1]

\* a slip of "Add/Change reaction": the award given for a change of kind too
ReactSessionAlways(session, id, type) ==
    addXP([session EXCEPT !.reactedPosts = Put(@, id, type)], XP_REACT)

\* handleReact, "Add/Change reaction": the session set, with the award
ReactSession(session, id, type) ==
    LET oldType == Lookup(session.reactedPosts, id)
        newSession == [session EXCEPT !.reactedPosts = Put(@, id, type)]
    IN IF oldType = Undefined THEN addXP(newSession, XP_REACT) ELSE newSession

\* handleReact, "Remove reaction": the session set
UnreactSession(session, id) ==
    [session EXCEPT !.reactedPosts = Delete(@, id)]

Count(m, k) == IF k \in DOMAIN m THEN m[k] ELSE 0

\* a call of updateConfession in flight, with what the handler does after it
Call(id, updates, then) == [id |-> id, updates |-> updates, then |-> then]

\* history, as a handler issues its call: the list and the session it started
\* from, kept while that call is the only one in flight
Before(id) ==
    IF pendingUpdates = {}
    THEN << [id |-> id, confessions |-> confessions, session |-> userSession] >>
    ELSE <<>>

\* the calls this client has in flight; "other" marks the call of another client
OwnCalls == {call \in pendingUpdates : call.then # "other"}

handleReact(id, type) ==
    /\ UNCHANGED <<aiIn, aiOut, dataOut, feedFilter, events, fetched, alerts, mediaVars>>
    /\ ~isLoading
    /\ FindIndex(confessions, id) # 0
    /\ Cardinality(OwnCalls) < MaxPending
    /\ before' = Before(id)
    /\ LET confession == confessions[FindIndex(confessions, id)]
           oldType == Lookup(userSession.reactedPosts, id)
       IN IF oldType = type
          THEN LET updatedReactions == RemoveReaction(confession.reactions, type)
               IN /\ userSession' = UnreactSession(userSession, id)
                  /\ confessions' = WithReactions(confessions, id, updatedReactions)
                  /\ pendingUpdates' = pendingUpdates \cup
                        {Call(id, [NoUpdates EXCEPT !.reactions = <<updatedReactions>>], "return")}
                  /\ UNCHANGED awards
          ELSE LET updatedReactions == ChangeReaction(confession.reactions, oldType, type)
               IN /\ oldType = Undefined => Count(awards, id) < MaxReactXp
                  /\ userSession' = ReactSession(userSession, id, type)
                  /\ confessions' = WithReactions(confessions, id, updatedReactions)
                  /\ pendingUpdates' = pendingUpdates \cup
                        {Call(id, [NoUpdates EXCEPT !.reactions = <<updatedReactions>>], "return")}
                  /\ awards' = IF oldType = Undefined
                               THEN Put(awards, id, Count(awards, id) + 1)
                               ELSE awards
    /\ localStorage' = SaveSession(userSession')
    /\ UNCHANGED <<remote, isLoading, activeTab, searchQuery, isModalOpen, isAnalyzing,
                   pendingAnalysis, pendingInserts, nextId, loaded>>

\* handleComment up to its await
AppendComment(comments, newComment) == comments \o <<newComment>>

handleComment(id, text) ==
    /\ UNCHANGED <<aiIn, aiOut, dataOut, feedFilter, events, fetched, alerts, mediaVars>>
    /\ ~isLoading
    /\ FindIndex(confessions, id) # 0
    /\ trim(text) # <<>>                    \* ConfessionCard.handleCommentSubmit
    /\ Cardinality(pendingUpdates) < MaxPending
    /\ before' = Before(id)
    /\ IdsLeft > 0
    /\ LET confession == confessions[FindIndex(confessions, id)]
           newComment == [id |-> nextId, text |-> text, authorAvatar |-> userSession.avatar]
           updatedComments == AppendComment(confession.comments, newComment)
       IN /\ Len(confession.comments) < MaxComments
          /\ confessions' = WithComments(confessions, id, updatedComments)
          /\ pendingUpdates' = pendingUpdates \cup
                {Call(id, [NoUpdates EXCEPT !.comments = <<updatedComments>>], "addXP")}
    /\ nextId' = nextId + 1
    /\ UNCHANGED <<remote, localStorage, isLoading, userSession, activeTab, searchQuery,
                   isModalOpen, isAnalyzing, pendingAnalysis, pendingInserts, loaded, awards>>

\* handleVote: the poll options with one more vote for optionId
CastVote(pollOptions, optionId) ==
    [i \in 1..Len(pollOptions) |->
        IF pollOptions[i].id = optionId
        THEN [pollOptions[i] EXCEPT !.votes = @ + 1]
        ELSE pollOptions[i]]

\* handleVote: the session set, with the award
VoteSession(session, confessionId, optionId) ==
    addXP([session EXCEPT !.votedPolls = Put(@, confessionId, optionId)], XP_VOTE)

\* a slip of handleVote: the early return left out
AlreadyVotedNever(session, confessionId) == FALSE

\* handleVote's first early return
AlreadyVoted(session, confessionId) ==
    Lookup(session.votedPolls, confessionId) # Undefined

OptionIds(pollOptions) == {pollOptions[i].id : i \in 1..Len(pollOptions)}

\* The card offers a vote on each option of a listed poll.
handleVote(confessionId, optionId) ==
    /\ UNCHANGED <<aiIn, aiOut, dataOut, feedFilter, events, fetched, alerts, mediaVars>>
    /\ ~isLoading
    /\ FindIndex(confessions, confessionId) # 0
    /\ LET confession == confessions[FindIndex(confessions, confessionId)]
       IN /\ confession.type = "poll"
          /\ optionId \in OptionIds(confession.pollOptions)
          /\ IF AlreadyVoted(userSession, confessionId) \/ confession.pollOptions = <<>>
             THEN UNCHANGED <<userSession, confessions, pendingUpdates, localStorage, before>>
             ELSE LET updatedPollOptions == CastVote(confession.pollOptions, optionId)
                  IN /\ Cardinality(pendingUpdates) < MaxPending
                     /\ userSession' = VoteSession(userSession, confessionId, optionId)
                     /\ confessions' = WithPollOptions(confessions, confessionId, updatedPollOptions)
                     /\ pendingUpdates' = pendingUpdates \cup
                           {Call(confessionId,
                                 [NoUpdates EXCEPT !.pollOptions = <<updatedPollOptions>>],
                                 "return")}
                     /\ localStorage' = SaveSession(userSession')
                     /\ before' = Before(confessionId)
    /\ UNCHANGED <<remote, isLoading, activeTab, searchQuery, isModalOpen, isAnalyzing,
                   pendingAnalysis, pendingInserts, nextId, loaded, awards>>

\* updateConfession resolves: true with the row updated, or false; then the
\* rest of the handler that awaited it runs (handleComment: addXP(5)).
updateConfession(call, ok) ==
    /\ UNCHANGED <<aiIn, aiOut, dataOut, feedFilter, events, fetched, alerts, mediaVars>>
    /\ call \in pendingUpdates
    /\ pendingUpdates' = pendingUpdates \ {call}
    /\ before' = <<>>
    /\ remote' = IF ok /\ call.id \in DOMAIN remote
                 THEN [remote EXCEPT ![call.id] = ApplyUpdate(@, UpdateData(call.updates))]
                 ELSE remote
    /\ userSession' = IF call.then = "addXP" THEN addXP(userSession, XP_COMMENT)
                      ELSE userSession
    /\ localStorage' = SaveSession(userSession')
    /\ UNCHANGED <<isLoading, confessions, activeTab, searchQuery, isModalOpen,
                   isAnalyzing, pendingAnalysis, pendingInserts, nextId, loaded, awards>>

\* another client reacts for the first time on a row: its handleReact computes
\* the tally from the reactions it holds, the row's, and sends the whole object
otherClientReacts(id, type) ==
    /\ ~isLoading
    /\ id \in DOMAIN remote
    /\ pendingUpdates \ OwnCalls = {}
    /\ remote[id].reactions[type] < MaxTally
    /\ pendingUpdates' = pendingUpdates \cup
          {Call(id, [NoUpdates EXCEPT !.reactions =
                       <<ChangeReaction(remote[id].reactions, Undefined, type)>>], "other")}
    /\ before' = <<>>
    /\ UNCHANGED <<remote, localStorage, isLoading, confessions, userSession, activeTab,
                   searchQuery, isModalOpen, isAnalyzing, pendingAnalysis, pendingInserts,
                   nextId, loaded, awards, aiIn, aiOut, dataOut, feedFilter, events,
                   fetched, alerts, mediaVars>>

\* ------------------------------------------------------ feed and realtime
\* Array.prototype.sort((a, b) => b[1] - a[1]): stable, by count descending
RECURSIVE InsertByCount(_, _)
InsertByCount(sorted, e) ==
    IF sorted = <<>> THEN <<e>>
    ELSE IF sorted[Len(sorted)][2] - e[2] >= 0 THEN Append(sorted, e)
    ELSE Append(InsertByCount(SubSeq(sorted, 1, Len(sorted) - 1), e), sorted[Len(sorted)])
RECURSIVE SortByCount(_)
SortByCount(entries) ==
    IF entries = <<>> THEN <<>>
    ELSE InsertByCount(SortByCount(SubSeq(entries, 1, Len(entries) - 1)),
                       entries[Len(entries)])

FeedFilters == {"all", "popular", "polls"}

\* Array.prototype.sort with a comparator b.key - a.key: stable, descending
SortDescending(list, key) ==
    LET entries == [i \in 1..Len(list) |-> <<list[i], key[i]>>]
        sorted == SortByCount(entries)
    IN [i \in 1..Len(sorted) |-> sorted[i][1]]

\* a slip of feedConfessions: the popular feed ranked by the love tally alone
feedConfessionsByLove(list, filter) ==
    LET kept == IF filter = "polls" THEN SelectSeq(list, LAMBDA c : c.type = "poll")
                ELSE list
    IN IF filter = "popular"
       THEN SortDescending(kept, [i \in 1..Len(kept) |-> kept[i].reactions["love"]])
       ELSE SortDescending(kept, [i \in 1..Len(kept) |-> kept[i].timestamp])

\* feedConfessions
feedConfessions(list, filter) ==
    LET kept == IF filter = "polls" THEN SelectSeq(list, LAMBDA c : c.type = "poll")
                ELSE list
    IN IF filter = "popular"
       THEN SortDescending(kept, [i \in 1..Len(kept) |-> TotalReactions(kept[i].reactions)])
       ELSE SortDescending(kept, [i \in 1..Len(kept) |-> kept[i].timestamp])

\* the feed's filter buttons
setFeedFilter(f) ==
    /\ ~isLoading
    /\ activeTab = "home"
    /\ feedFilter' = f
    /\ UNCHANGED <<remote, localStorage, isLoading, confessions, userSession, activeTab,
                   searchQuery, isModalOpen, isAnalyzing, pendingAnalysis, pendingInserts,
                   pendingUpdates, nextId, loaded, awards, aiIn, aiOut, dataOut, events,
                   fetched, alerts, before, mediaVars>>

\* the backend answers fetchConfessions; the answer is on its way
fetchServed(ok) ==
    /\ isLoading
    /\ fetched = <<>>
    /\ fetched' = << fetchConfessions(remote, ok) >>
    /\ UNCHANGED <<remote, localStorage, isLoading, confessions, userSession, activeTab,
                   searchQuery, isModalOpen, isAnalyzing, pendingAnalysis, pendingInserts,
                   pendingUpdates, nextId, loaded, awards, aiIn, aiOut, dataOut, feedFilter,
                   events, alerts, before, mediaVars>>

\* the row another client inserts
OtherRow(id, love) ==
    [SeedText(love, 0) EXCEPT !.id = id, !.timestamp = id, !.author_avatar = "Sleepy Cat"]

\* another client posts: the row is inserted and the INSERT event goes out to
\* this client, which subscribed as App mounted
otherClientPosts(love) ==
    /\ IdsLeft > 0
    /\ remote' = (nextId :> OtherRow(nextId, love)) @@ remote
    /\ events' = events \cup {OtherRow(nextId, love)}
    /\ nextId' = nextId + 1
    /\ UNCHANGED <<localStorage, isLoading, confessions, userSession, activeTab,
                   searchQuery, isModalOpen, isAnalyzing, pendingAnalysis, pendingInserts,
                   pendingUpdates, loaded, awards, aiIn, aiOut, dataOut, feedFilter,
                   fetched, alerts, before, mediaVars>>

\* the subscription's callback: setConfessions(prev => [newConfession, ...prev])
realtimeInsert(row) ==
    /\ row \in events
    /\ events' = events \ {row}
    /\ confessions' = <<FromRow(row)>> \o confessions
    /\ UNCHANGED <<remote, localStorage, isLoading, userSession, activeTab,
                   searchQuery, isModalOpen, isAnalyzing, pendingAnalysis, pendingInserts,
                   pendingUpdates, nextId, loaded, awards, aiIn, aiOut, dataOut, feedFilter,
                   fetched, alerts, before, mediaVars>>

\* ------------------------------------------------- camera and microphone
MaxStreams == 2
MaxPhotos == 2

\* getUserMedia called by a view: one more request in flight.  `attached` and
\* `parent` are history: the instance that asked is still the mounted one, and
\* so is the component that rendered it
Requested(media, owner) ==
    [media EXCEPT !.requests = @ \cup {[n |-> media.issued + 1, owner |-> owner,
                                        attached |-> TRUE, parent |-> TRUE]},
                  !.issued = @ + 1]

\* the request resolves with a stream, whose tracks are live
Granted(media, request) ==
    [media EXCEPT !.requests = @ \ {request},
                  !.streams = @ \cup {[n |-> request.n, owner |-> request.owner,
                                       attached |-> request.attached]}]

\* the request rejects
Denied(media, request) == [media EXCEPT !.requests = @ \ {request}]

\* stream.getTracks().forEach(t => t.stop())
TracksStopped(media, n) == [media EXCEPT !.streams = {s \in @ : s.n # n}]

\* the view `owner` unmounts: what it asked for and holds goes on without it
Detached(media, owner) ==
    LET Mark(x) == IF x.owner = owner THEN [x EXCEPT !.attached = FALSE] ELSE x
    IN [media EXCEPT !.requests = {Mark(r) : r \in @}, !.streams = {Mark(s) : s \in @}]

\* ------------------------------------------------------- generateStyledImage
OriginalCapture == <<"data:image/jpeg;base64,", "capture">>

\* what ai.models.generateContent may do: reject, or resolve with no
\* candidates, or with the parts of the first candidate
StyleResponses ==
    { [rejected |-> TRUE, candidates |-> <<>>],
      [rejected |-> FALSE, candidates |-> <<>>],
      [rejected |-> FALSE, candidates |-> << <<>> >>],
      [rejected |-> FALSE, candidates |-> << <<[inlineData |-> <<>>]>> >>],
      [rejected |-> FALSE, candidates |-> << <<[inlineData |-> <<>>],
                                               [inlineData |-> <<"styled">>]>> >>],
      [rejected |-> FALSE, candidates |-> << <<[inlineData |-> <<"styled">>]>> >>] }

\* the first part with inline data, as the for loop finds it
RECURSIVE FirstInline(_)
FirstInline(parts) ==
    IF parts = <<>> THEN <<>>
    ELSE IF parts[1].inlineData # <<>> THEN parts[1].inlineData
    ELSE FirstInline(Tail(parts))

\* a slip of generateStyledImage: the catch block returns an empty string
generateStyledImageQuiet(imageBase64, style, response) ==
    IF response.rejected \/ response.candidates = <<>>
          \/ FirstInline(response.candidates[1]) = <<>>
    THEN [threw |-> FALSE, value |-> <<"">>]
    ELSE [threw |-> FALSE,
          value |-> <<"data:image/png;base64,", FirstInline(response.candidates[1])[1]>>]

\* generateStyledImage: the catch block logs and throws again
generateStyledImage(imageBase64, style, response) ==
    IF response.rejected                           \* await rejects
    THEN [threw |-> TRUE, value |-> NoPhoto]
    ELSE IF response.candidates = <<>>             \* candidates![0] of undefined
    THEN [threw |-> TRUE, value |-> NoPhoto]
    ELSE IF FirstInline(response.candidates[1]) = <<>>   \* "No image generated"
    THEN [threw |-> TRUE, value |-> NoPhoto]
    ELSE [threw |-> FALSE,
          value |-> <<"data:image/png;base64,", FirstInline(response.candidates[1])[1]>>]

\* ------------------------------------------------------------ MatchmakerMode
\* startCamera, up to its await
mmStartCamera(mm, media) ==
    IF mm.streamRef # NoStream THEN [mm |-> mm, media |-> media]
    ELSE [mm |-> mm, media |-> Requested(media, "matchmaker")]

\* stopCamera
mmStopCamera(mm, media) ==
    [mm |-> [mm EXCEPT !.streamRef = NoStream, !.isCameraOn = FALSE],
     media |-> IF mm.streamRef # NoStream THEN TracksStopped(media, mm.streamRef)
               ELSE media]

\* the view mounts: the init effect reads the saved photos and starts the camera
mmMount(media) ==
    mmStartCamera([MatchmakerOff EXCEPT !.mounted = TRUE, !.savedPhotos = polaroids],
                  media)

\* the view unmounts: the init effect's cleanup stops the camera
mmUnmount(mm, media) ==
    [mm |-> MatchmakerOff, media |-> Detached(mmStopCamera(mm, media).media, "matchmaker")]

\* the active tab becomes `tab`: MatchmakerMode is rendered on its tab only
SwitchTo(tab) ==
    /\ activeTab' = tab
    /\ IF tab = "matchmaker" /\ activeTab # "matchmaker"
       THEN /\ mediaDevices.issued < MaxStreams
            /\ matchmaker' = mmMount(mediaDevices).mm
            /\ mediaDevices' = mmMount(mediaDevices).media
            /\ UNCHANGED pendingStyles
       ELSE IF tab # "matchmaker" /\ activeTab = "matchmaker"
       THEN /\ matchmaker' = mmUnmount(matchmaker, mediaDevices).mm
            /\ mediaDevices' = mmUnmount(matchmaker, mediaDevices).media
            /\ pendingStyles' = {}      \* their state setters no longer do anything
       ELSE UNCHANGED <<matchmaker, mediaDevices, pendingStyles>>
    /\ UNCHANGED <<videoRecorder, audioRecorder, timers, pendingReads, polaroids>>

\* what the matchmaker's actions leave alone
mmRest ==
    <<remote, localStorage, isLoading, confessions, userSession, activeTab, searchQuery,
      isModalOpen, isAnalyzing, pendingAnalysis, pendingInserts, pendingUpdates, nextId,
      loaded, awards, aiIn, aiOut, dataOut, feedFilter, events, fetched, alerts, before, videoRecorder, audioRecorder,
      timers, pendingReads>>

\* startCamera after its await: getUserMedia resolved or rejected
mmCameraResolves(request, ok) ==
    /\ request \in mediaDevices.requests
    /\ request.owner = "matchmaker"
    /\ mediaDevices' = IF ok THEN Granted(mediaDevices, request)
                       ELSE Denied(mediaDevices, request)
    /\ matchmaker' = IF ~request.attached THEN matchmaker
                     ELSE IF ok THEN [matchmaker EXCEPT !.streamRef = request.n,
                                                        !.isCameraOn = TRUE]
                     ELSE [matchmaker EXCEPT !.isCameraOn = FALSE]
    /\ UNCHANGED <<mmRest, pendingStyles, polaroids>>

togglePower ==
    /\ matchmaker.mounted
    /\ LET next == IF matchmaker.isCameraOn THEN mmStopCamera(matchmaker, mediaDevices)
                   ELSE mmStartCamera(matchmaker, mediaDevices)
       IN /\ next.media.issued <= MaxStreams
          /\ matchmaker' = next.mm
          /\ mediaDevices' = next.media
    /\ UNCHANGED <<mmRest, pendingStyles, polaroids>>

cycleFilter ==
    /\ matchmaker.mounted
    /\ matchmaker' = [matchmaker EXCEPT !.filterMode =
                         CASE @ = "cartoon" -> "anime" [] @ = "anime" -> "kawaii"
                           [] @ = "kawaii" -> "sketch" [] @ = "sketch" -> "cartoon"]
    /\ UNCHANGED <<mmRest, mediaDevices, pendingStyles, polaroids>>

\* takePhoto up to its await, when the canvas yields a capture (the video
\* element is rendered while isCameraOn)
takePhoto ==
    /\ matchmaker.mounted
    /\ matchmaker.isCameraOn
    /\ ~matchmaker.isEjecting /\ ~matchmaker.isProcessing
    /\ matchmaker.tempPhoto = NoPhoto
    /\ matchmaker' = [matchmaker EXCEPT !.tempPhoto = OriginalCapture,
                                        !.currentPhoto = NoPhoto,
                                        !.isEjecting = TRUE, !.isProcessing = TRUE]
    /\ pendingStyles' = pendingStyles \cup
          {[original |-> OriginalCapture, style |-> matchmaker.filterMode]}
    /\ UNCHANGED <<mmRest, mediaDevices, polaroids>>

\* the 1000 ms timeout of takePhoto
ejectTimeout ==
    /\ matchmaker.mounted
    /\ matchmaker.isEjecting
    /\ matchmaker' = [matchmaker EXCEPT !.isEjecting = FALSE]
    /\ UNCHANGED <<mmRest, mediaDevices, pendingStyles, polaroids>>

\* takePhoto after its await: the styled image, or the catch block
styleResolves(call, response) ==
    /\ matchmaker.mounted
    /\ call \in pendingStyles
    /\ pendingStyles' = pendingStyles \ {call}
    /\ LET styled == generateStyledImage(call.original, call.style, response)
       IN matchmaker' =
             IF styled.threw
             THEN [matchmaker EXCEPT !.currentPhoto = call.original, !.isProcessing = FALSE]
             ELSE [matchmaker EXCEPT !.currentPhoto = styled.value, !.isProcessing = FALSE]
    /\ UNCHANGED <<mmRest, mediaDevices, polaroids>>

\* a slip of savePhoto: the photos saved before are dropped
savePhotoAlone(saved, id, url, filter) == <<[id |-> id, url |-> url, filter |-> filter]>>

\* savePhoto: the new photo first; its id is Date.now()
savePhoto(saved, id, url, filter) ==
    <<[id |-> id, url |-> url, filter |-> filter]>> \o saved

handleDrop ==
    /\ matchmaker.mounted
    /\ matchmaker.currentPhoto # NoPhoto
    /\ Len(matchmaker.savedPhotos) < MaxPhotos
    /\ IdsLeft > 0
    /\ LET updated == savePhoto(matchmaker.savedPhotos, nextId, matchmaker.currentPhoto,
                                matchmaker.filterMode)
       IN /\ matchmaker' = [matchmaker EXCEPT !.savedPhotos = updated,
                                              !.tempPhoto = NoPhoto,
                                              !.currentPhoto = NoPhoto]
          /\ polaroids' = updated
    /\ nextId' = nextId + 1
    /\ UNCHANGED <<remote, localStorage, isLoading, confessions, userSession, activeTab,
                   searchQuery, isModalOpen, isAnalyzing, pendingAnalysis, pendingInserts,
                   pendingUpdates, loaded, awards, aiIn, aiOut, dataOut, feedFilter, events, fetched, alerts, before,
                   videoRecorder, audioRecorder, timers, pendingReads, mediaDevices,
                   pendingStyles>>

\* savedPhotos.filter(p => p.id !== id)
WithoutPhoto(saved, id) == SelectSeq(saved, LAMBDA p : p.id # id)

\* deletePhoto, from the gallery's delete button of a photo
deletePhoto(id) ==
    /\ matchmaker.mounted
    /\ \E i \in 1..Len(matchmaker.savedPhotos) : matchmaker.savedPhotos[i].id = id
    /\ LET updated == WithoutPhoto(matchmaker.savedPhotos, id)
       IN /\ matchmaker' = [matchmaker EXCEPT !.savedPhotos = updated]
          /\ polaroids' = updated
    /\ UNCHANGED <<mmRest, mediaDevices, pendingStyles>>

\* ------------------------------------------------ VideoRecorder, AudioRecorder
CameraRequired == "Camera access is required to record video."
MicrophoneRequired == "Microphone access is required to record audio."

\* the modal unmounts: the state setters its recorders were given do nothing
Orphaned(S) ==
    {IF x.owner \in {"video", "audio"} THEN [x EXCEPT !.attached = FALSE, !.parent = FALSE]
     ELSE x : x \in S}

\* a recorder unmounts: what it started goes on without it
Unattached(S, owner) ==
    {IF x.owner = owner THEN [x EXCEPT !.attached = FALSE] ELSE x : x \in S}

\* VideoRecorder's stopCamera as the closure sees it: `stream` is the state of
\* the render the closure was made in
vrStopCamera(vr, media, stream) ==
    [vr |-> IF stream # NoStream THEN [vr EXCEPT !.stream = NoStream] ELSE vr,
     media |-> IF stream # NoStream THEN TracksStopped(media, stream) ELSE media]

\* VideoRecorder unmounts: the effect's cleanup is the stopCamera of the first
\* render, in which `stream` is null
vrUnmount(vr, media) ==
    [vr |-> VideoRecorderOff,
     media |-> Detached(vrStopCamera(vr, media, NoStream).media, "video")]

\* AudioRecorder unmounts: it has no effect and no cleanup
arUnmount(media) == [ar |-> AudioRecorderOff, media |-> Detached(media, "audio")]

\* setShowVideoRecorder(false)
VideoRecorderHidden ==
    /\ videoRecorder' = vrUnmount(videoRecorder, mediaDevices).vr
    /\ pendingReads' = Unattached(pendingReads, "video")

\* onClose of the modal, as far as the recorders go
RecordersUnmounted ==
    /\ videoRecorder' = VideoRecorderOff
    /\ audioRecorder' = AudioRecorderOff
    /\ mediaDevices' = [mediaDevices EXCEPT !.requests = Orphaned(@)]
    /\ pendingReads' = Orphaned(pendingReads)
    /\ UNCHANGED <<matchmaker, timers, pendingStyles, polaroids>>

\* what the recorders' actions leave alone
recRest ==
    <<remote, localStorage, isLoading, confessions, userSession, activeTab, searchQuery,
      isModalOpen, isAnalyzing, pendingAnalysis, pendingInserts, pendingUpdates, nextId,
      loaded, awards, aiIn, aiOut, dataOut, feedFilter, events, fetched, before, matchmaker, pendingStyles, polaroids>>

\* "Record Video": the recorder mounts and its effect starts the camera
showVideoRecorder ==
    /\ isModalOpen
    /\ ~videoRecorder.mounted
    /\ mediaDevices.issued < MaxStreams
    /\ videoRecorder' = [VideoRecorderOff EXCEPT !.mounted = TRUE]
    /\ mediaDevices' = Requested(mediaDevices, "video")
    /\ UNCHANGED <<recRest, alerts, audioRecorder, timers, pendingReads>>

\* VideoRecorder's startCamera after its await
vrCameraResolves(request, ok) ==
    /\ request \in mediaDevices.requests
    /\ request.owner = "video"
    /\ IF ok
       THEN /\ mediaDevices' = Granted(mediaDevices, request)
            /\ videoRecorder' = IF request.attached
                                THEN [videoRecorder EXCEPT !.stream = request.n]
                                ELSE videoRecorder
            /\ UNCHANGED <<alerts, pendingReads>>
       ELSE /\ alerts' = Append(alerts, CameraRequired)
            /\ IF request.parent                      \* onCancel()
               THEN /\ VideoRecorderHidden
                    /\ mediaDevices' =
                          vrUnmount(videoRecorder, Denied(mediaDevices, request)).media
               ELSE /\ mediaDevices' = Denied(mediaDevices, request)
                    /\ UNCHANGED <<videoRecorder, pendingReads>>
    /\ UNCHANGED <<recRest, audioRecorder, timers>>

\* VideoRecorder's startRecording: the recorder's onstop keeps this render's
\* stopCamera, and so this render's stream
vrStartRecording ==
    /\ videoRecorder.mounted
    /\ ~videoRecorder.isRecording
    /\ videoRecorder.stream # NoStream
    /\ videoRecorder' = [videoRecorder EXCEPT !.recorder = videoRecorder.stream,
                                              !.isRecording = TRUE]
    /\ timers' = timers \cup {[owner |-> "video", n |-> videoRecorder.stream]}
    /\ UNCHANGED <<recRest, alerts, audioRecorder, mediaDevices, pendingReads>>

\* stopRecording as the interval's callback holds it: the function of the render
\* in which the record button was shown, where isRecording was false
vrStopRecordingFromTimer(seenIsRecording) ==
    IF videoRecorder.recorder # NoStream /\ seenIsRecording
    THEN /\ videoRecorder' = [videoRecorder EXCEPT !.isRecording = FALSE,
                                                   !.recordingTime = RECORDING_LIMIT,
                                                   !.ticks = @ + 1]
         /\ timers' = timers \ {[owner |-> "video", n |-> videoRecorder.recorder]}
         /\ pendingReads' = pendingReads \cup
               {[owner |-> "video", n |-> videoRecorder.recorder, attached |-> TRUE,
                 parent |-> TRUE]}
    ELSE /\ videoRecorder' = [videoRecorder EXCEPT !.recordingTime = RECORDING_LIMIT,
                                                   !.ticks = @ + 1]
         /\ UNCHANGED <<timers, pendingReads>>

\* the interval of startRecording fires, a second on: setRecordingTime(prev => ...)
vrTick ==
    /\ videoRecorder.mounted
    /\ [owner |-> "video", n |-> videoRecorder.recorder] \in timers
    /\ videoRecorder.ticks <= RECORDING_LIMIT
    /\ IF videoRecorder.recordingTime >= RECORDING_LIMIT
       THEN vrStopRecordingFromTimer(FALSE)
       ELSE /\ videoRecorder' = [videoRecorder EXCEPT !.recordingTime = @ + 1,
                                                      !.ticks = @ + 1]
            /\ UNCHANGED <<timers, pendingReads>>
    /\ UNCHANGED <<recRest, alerts, audioRecorder, mediaDevices>>

\* VideoRecorder's stopRecording, with the onstop it causes: the blob is read
vrStopRecording ==
    /\ videoRecorder.mounted
    /\ videoRecorder.recorder # NoStream /\ videoRecorder.isRecording
    /\ videoRecorder' = [videoRecorder EXCEPT !.isRecording = FALSE]
    /\ timers' = timers \ {[owner |-> "video", n |-> videoRecorder.recorder]}
    /\ pendingReads' = pendingReads \cup
          {[owner |-> "video", n |-> videoRecorder.recorder, attached |-> TRUE,
            parent |-> TRUE]}
    /\ UNCHANGED <<recRest, alerts, audioRecorder, mediaDevices>>

\* reader.onloadend of the video: onRecordingComplete, then stopCamera
vrReadDone(read) ==
    /\ read \in pendingReads
    /\ read.owner = "video"
    /\ LET stopped == vrStopCamera(videoRecorder, mediaDevices, read.n)
           instance == IF read.attached THEN stopped.vr ELSE videoRecorder
       IN IF read.parent                   \* setShowVideoRecorder(false)
          THEN /\ videoRecorder' = vrUnmount(instance, stopped.media).vr
               /\ mediaDevices' = vrUnmount(instance, stopped.media).media
               /\ pendingReads' = Unattached(pendingReads \ {read}, "video")
          ELSE /\ videoRecorder' = instance
               /\ mediaDevices' = stopped.media
               /\ pendingReads' = pendingReads \ {read}
    /\ UNCHANGED <<recRest, alerts, audioRecorder, timers>>

\* the recorder's cancel button: onCancel
vrCancel ==
    /\ videoRecorder.mounted
    /\ VideoRecorderHidden
    /\ mediaDevices' = vrUnmount(videoRecorder, mediaDevices).media
    /\ UNCHANGED <<recRest, alerts, audioRecorder, timers>>

\* "Record": the audio recorder mounts; nothing is acquired yet
showAudioRecorder ==
    /\ isModalOpen
    /\ ~audioRecorder.mounted
    /\ audioRecorder' = [AudioRecorderOff EXCEPT !.mounted = TRUE]
    /\ UNCHANGED <<recRest, alerts, videoRecorder, mediaDevices, timers, pendingReads>>

\* AudioRecorder's startRecording up to its await
arStartRecording ==
    /\ audioRecorder.mounted
    /\ ~audioRecorder.isRecording
    /\ mediaDevices.issued < MaxStreams
    /\ mediaDevices' = Requested(mediaDevices, "audio")
    /\ UNCHANGED <<recRest, alerts, videoRecorder, audioRecorder, timers, pendingReads>>

\* AudioRecorder's startRecording after its await: the recorder and the interval
\* are made whether or not the component is still there
arMicrophoneResolves(request, ok) ==
    /\ request \in mediaDevices.requests
    /\ request.owner = "audio"
    /\ IF ok
       THEN /\ mediaDevices' = Granted(mediaDevices, request)
            /\ timers' = timers \cup {[owner |-> "audio", n |-> request.n]}
            /\ audioRecorder' = IF request.attached
                                THEN [audioRecorder EXCEPT !.recorder = request.n,
                                                           !.timerRef = request.n,
                                                           !.isRecording = TRUE]
                                ELSE audioRecorder
            /\ UNCHANGED alerts
       ELSE /\ mediaDevices' = Denied(mediaDevices, request)
            /\ alerts' = Append(alerts, MicrophoneRequired)
            /\ UNCHANGED <<audioRecorder, timers>>
    /\ UNCHANGED <<recRest, videoRecorder, pendingReads>>

\* AudioRecorder's stopRecording, with the onstop it causes: the blob is read
\* and the tracks of the recorder's stream are stopped
arStopRecording ==
    /\ audioRecorder.mounted
    /\ audioRecorder.recorder # NoStream /\ audioRecorder.isRecording
    /\ audioRecorder' = [audioRecorder EXCEPT !.isRecording = FALSE]
    /\ mediaDevices' = TracksStopped(mediaDevices, audioRecorder.recorder)
    /\ timers' = timers \ {[owner |-> "audio", n |-> audioRecorder.timerRef]}
    /\ pendingReads' = pendingReads \cup
          {[owner |-> "audio", n |-> audioRecorder.recorder, attached |-> TRUE,
            parent |-> TRUE]}
    /\ UNCHANGED <<recRest, alerts, videoRecorder>>

\* reader.onloadend of the audio: onRecordingComplete
arReadDone(read) ==
    /\ read \in pendingReads
    /\ read.owner = "audio"
    /\ IF read.parent                   \* setShowAudioRecorder(false)
       THEN /\ audioRecorder' = arUnmount(mediaDevices).ar
            /\ mediaDevices' = arUnmount(mediaDevices).media
            /\ pendingReads' = Unattached(pendingReads \ {read}, "audio")
       ELSE /\ pendingReads' = pendingReads \ {read}
            /\ UNCHANGED <<audioRecorder, mediaDevices>>
    /\ UNCHANGED <<recRest, alerts, videoRecorder, timers>>

\* the audio recorder's Cancel: onCancel
arCancel ==
    /\ audioRecorder.mounted
    /\ audioRecorder' = arUnmount(mediaDevices).ar
    /\ mediaDevices' = arUnmount(mediaDevices).media
    /\ pendingReads' = Unattached(pendingReads, "audio")
    /\ UNCHANGED <<recRest, alerts, videoRecorder, timers>>

\* ----------------------------------------------------------- CreatePostModal
\* What the form may hold when Post is pressed.
Form(postType, text, image, video, pollOptions) ==
    [postType |-> postType, text |-> text, image |-> image, audio |-> Undefined,
     video |-> video, pollOptions |-> pollOptions]

Forms ==
    { Form("text", <<"a", "b">>, Undefined, Undefined, <<<<>>, <<>>>>),
      Form("text", <<"a">>, "data:image", Undefined, <<<<>>, <<>>>>),
      Form("text", <<" ">>, "data:image", Undefined, <<<<>>, <<>>>>),
      Form("poll", <<"A", "b">>, Undefined, Undefined, <<<<"a">>, <<"b">>>>),
      Form("poll", <<"A", "b">>, Undefined, Undefined, <<<<"a">>, <<" ">>>>),
      Form("video", <<"b">>, Undefined, "data:video", <<<<>>, <<>>>>) }

\* the Post button is disabled with nothing entered
CanPress(form) ==
    form.text # <<>> \/ form.image # Undefined \/ form.audio # Undefined
        \/ form.video # Undefined

\* handleSubmit's validation
Valid(form) ==
    /\ trim(form.text) # <<>>
    /\ form.postType = "poll" =>
          \A i \in 1..Len(form.pollOptions) : trim(form.pollOptions[i]) # <<>>

OptName == <<"opt_0", "opt_1", "opt_2", "opt_3">>

\* handleSubmit: finalPollOptions
FinalPollOptions(form) ==
    IF form.postType = "poll"
    THEN [i \in 1..Len(form.pollOptions) |->
            [id |-> OptName[i], text |-> form.pollOptions[i], votes |-> 0]]
    ELSE <<>>

\* a slip of handleSubmit: the tags of the analysis not passed on
NewPostDataDefaults(form, aiResult) ==
    [type |-> form.postType, text |-> form.text,
     image |-> IF form.postType = "text" THEN form.image ELSE Undefined,
     audio |-> IF form.postType = "text" THEN form.audio ELSE Undefined,
     video |-> IF form.postType = "video" THEN form.video ELSE Undefined,
     pollOptions |-> FinalPollOptions(form),
     tags |-> <<>>, sentiment |-> aiResult.sentiment, emoji |-> aiResult.emoji,
     colorTheme |-> aiResult.colorTheme, isSafe |-> aiResult.isSafe,
     flagReason |-> aiResult.flagReason]

\* handleSubmit: the argument of onPost
NewPostData(form, aiResult) ==
    [type |-> form.postType, text |-> form.text,
     image |-> IF form.postType = "text" THEN form.image ELSE Undefined,
     audio |-> IF form.postType = "text" THEN form.audio ELSE Undefined,
     video |-> IF form.postType = "video" THEN form.video ELSE Undefined,
     pollOptions |-> FinalPollOptions(form),
     tags |-> aiResult.tags, sentiment |-> aiResult.sentiment, emoji |-> aiResult.emoji,
     colorTheme |-> aiResult.colorTheme, isSafe |-> aiResult.isSafe,
     flagReason |-> aiResult.flagReason]

\* handlePost: newConfession
NewConfession(id, timestamp, avatar, data) ==
    [id |-> id, timestamp |-> timestamp, reactions |-> ZeroReactions, comments |-> <<>>,
     authorAvatar |-> avatar,
     type |-> data.type, text |-> data.text, image |-> data.image, audio |-> data.audio,
     video |-> data.video, pollOptions |-> data.pollOptions, tags |-> data.tags,
     sentiment |-> data.sentiment, emoji |-> data.emoji, colorTheme |-> data.colorTheme,
     isSafe |-> data.isSafe, flagReason |-> data.flagReason]

openModal ==
    /\ UNCHANGED <<aiIn, aiOut, dataOut, feedFilter, events, fetched, alerts, before, mediaVars>>
    /\ ~isLoading
    /\ ~isModalOpen
    /\ isModalOpen' = TRUE
    /\ isAnalyzing' = FALSE
    /\ UNCHANGED <<remote, localStorage, isLoading, confessions, userSession, activeTab,
                   searchQuery, pendingAnalysis, pendingInserts, pendingUpdates, nextId,
                   loaded, awards>>

\* onClose from the backdrop or the close button: the modal unmounts, and the
\* submissions it started go on without it
onClose ==
    /\ UNCHANGED <<aiIn, aiOut, dataOut, feedFilter, events, fetched, alerts, before>>
    /\ RecordersUnmounted
    /\ isModalOpen
    /\ isModalOpen' = FALSE
    /\ isAnalyzing' = FALSE
    /\ pendingAnalysis' = {[a EXCEPT !.mounted = FALSE] : a \in pendingAnalysis}
    /\ UNCHANGED <<remote, localStorage, isLoading, confessions, userSession, activeTab,
                   searchQuery, pendingInserts, pendingUpdates, nextId, loaded, awards>>

\* handleSubmit up to its await
handleSubmit(form) ==
    /\ UNCHANGED <<aiIn, aiOut, dataOut, feedFilter, events, fetched, alerts, before, mediaVars>>
    /\ isModalOpen
    /\ ~isAnalyzing
    /\ CanPress(form)
    /\ IF ~Valid(form)
       THEN UNCHANGED <<isAnalyzing, pendingAnalysis>>
       ELSE /\ IdsLeft > 0
            /\ isAnalyzing' = TRUE
            /\ pendingAnalysis' = pendingAnalysis \cup {[form |-> form, mounted |-> TRUE]}
    /\ UNCHANGED <<remote, localStorage, isLoading, confessions, userSession, activeTab,
                   searchQuery, isModalOpen, pendingInserts, pendingUpdates, nextId,
                   loaded, awards>>

\* a slip of handleSubmit: the answer to the confirm dialog is not looked at
handleSubmitResumeUngated(a, response, proceed) ==
    /\ UNCHANGED <<aiIn, aiOut, dataOut, feedFilter, events, fetched, alerts, before>>
    /\ a \in pendingAnalysis
    /\ LET analysis == analyzeConfession(a.form.text, a.form.image, response)
           aiResult == analysis.value
           newConfession == NewConfession(nextId, nextId, userSession.avatar,
                                          NewPostData(a.form, aiResult))
       IN IF analysis.threw                  \* handleSubmit rejects: nothing more runs
          THEN UNCHANGED <<isAnalyzing, isModalOpen, pendingInserts, nextId, mediaVars>>
          ELSE /\ pendingInserts' = pendingInserts \cup
                     {[confession |-> newConfession,
                       aiFailed |-> TryAnalyze(a.form.text, a.form.image, response).threw,
                       asked |-> ~aiResult.isSafe,
                       mounted |-> a.mounted]}
               /\ nextId' = nextId + 1
               /\ isAnalyzing' = FALSE
               /\ isModalOpen' = FALSE
               /\ RecordersUnmounted
    \* onClose unmounts the modal that is open, a later one than a's included
    /\ pendingAnalysis' = IF isModalOpen' THEN pendingAnalysis \ {a}
                          ELSE {[x EXCEPT !.mounted = FALSE] : x \in pendingAnalysis \ {a}}
    /\ UNCHANGED <<remote, localStorage, isLoading, confessions, userSession, activeTab,
                   searchQuery, pendingUpdates, loaded, awards>>

\* a slip of handleSubmit: the submission given up when the modal is gone
handleSubmitResumeCancelled(a, response, proceed) ==
    /\ UNCHANGED <<aiIn, aiOut, dataOut, feedFilter, events, fetched, alerts, before>>
    /\ a \in pendingAnalysis
    /\ LET analysis == analyzeConfession(a.form.text, a.form.image, response)
           aiResult == analysis.value
           newConfession == NewConfession(nextId, nextId, userSession.avatar,
                                          NewPostData(a.form, aiResult))
       IN IF analysis.threw \/ ~a.mounted
          THEN UNCHANGED <<isAnalyzing, isModalOpen, pendingInserts, nextId, mediaVars>>
          ELSE IF ~aiResult.isSafe /\ ~proceed
          THEN /\ isAnalyzing' = FALSE
               /\ UNCHANGED <<isModalOpen, pendingInserts, nextId, mediaVars>>
          ELSE /\ pendingInserts' = pendingInserts \cup
                     {[confession |-> newConfession,
                       aiFailed |-> TryAnalyze(a.form.text, a.form.image, response).threw,
                       asked |-> ~aiResult.isSafe,
                       mounted |-> a.mounted]}
               /\ nextId' = nextId + 1
               /\ isAnalyzing' = FALSE
               /\ isModalOpen' = FALSE
               /\ RecordersUnmounted
    \* onClose unmounts the modal that is open, a later one than a's included
    /\ pendingAnalysis' = IF isModalOpen' THEN pendingAnalysis \ {a}
                          ELSE {[x EXCEPT !.mounted = FALSE] : x \in pendingAnalysis \ {a}}
    /\ UNCHANGED <<remote, localStorage, isLoading, confessions, userSession, activeTab,
                   searchQuery, pendingUpdates, loaded, awards>>

\* analyzeConfession resolves and handleSubmit runs on: the confirm dialog when
\* the verdict is unsafe, then onPost (handlePost up to its await),
\* setIsAnalyzing(false) and onClose()
handleSubmitResume(a, response, proceed) ==
    /\ UNCHANGED <<aiIn, aiOut, dataOut, feedFilter, events, fetched, alerts, before>>
    /\ a \in pendingAnalysis
    /\ LET analysis == analyzeConfession(a.form.text, a.form.image, response)
           aiResult == analysis.value
           newConfession == NewConfession(nextId, nextId, userSession.avatar,
                                          NewPostData(a.form, aiResult))
       IN IF analysis.threw                  \* handleSubmit rejects: nothing more runs
          THEN UNCHANGED <<isAnalyzing, isModalOpen, pendingInserts, nextId, mediaVars>>
          ELSE IF ~aiResult.isSafe /\ ~proceed
          THEN /\ isAnalyzing' = IF a.mounted THEN FALSE ELSE isAnalyzing
               /\ UNCHANGED <<isModalOpen, pendingInserts, nextId, mediaVars>>
          ELSE /\ pendingInserts' = pendingInserts \cup
                     {[confession |-> newConfession,
                       aiFailed |-> TryAnalyze(a.form.text, a.form.image, response).threw,
                       asked |-> ~aiResult.isSafe,
                       mounted |-> a.mounted]}
               /\ nextId' = nextId + 1
               /\ isAnalyzing' = FALSE
               /\ isModalOpen' = FALSE
               /\ RecordersUnmounted
    \* onClose unmounts the modal that is open, a later one than a's included
    /\ pendingAnalysis' = IF isModalOpen' THEN pendingAnalysis \ {a}
                          ELSE {[x EXCEPT !.mounted = FALSE] : x \in pendingAnalysis \ {a}}
    /\ UNCHANGED <<remote, localStorage, isLoading, confessions, userSession, activeTab,
                   searchQuery, pendingUpdates, loaded, awards>>

\* insertConfession: the table after a successful insert
InsertRow(table, c) == (c.id :> ToRow(c)) @@ table

\* handlePost's alert
PostFailed == "Failed to post confession. Please try again."

\* a slip of handlePost: no return after the alert of a failed insert
insertConfessionNoReturn(call, ok) ==
    /\ UNCHANGED <<aiIn, aiOut, dataOut, feedFilter, fetched, before>>
    /\ call \in pendingInserts
    /\ pendingInserts' = pendingInserts \ {call}
    /\ IF insertConfessionReturns(~ok)
       THEN /\ remote' = InsertRow(remote, call.confession)
            /\ events' = events \cup {ToRow(call.confession)}
            /\ userSession' = addXP(userSession, XP_POST)
            /\ SwitchTo("home")
            /\ UNCHANGED <<confessions, alerts>>
       ELSE /\ confessions' = SelectSeq(confessions, LAMBDA c : c.id # call.confession.id)
            /\ alerts' = Append(alerts, PostFailed)
            /\ userSession' = addXP(userSession, XP_POST)
            /\ SwitchTo("home")
            /\ UNCHANGED <<remote, events>>
    /\ localStorage' = SaveSession(userSession')
    /\ UNCHANGED <<isLoading, searchQuery, isModalOpen, isAnalyzing, pendingAnalysis,
                   pendingUpdates, nextId, loaded, awards>>

\* insertConfession resolves and handlePost runs on
insertConfession(call, ok) ==
    /\ UNCHANGED <<aiIn, aiOut, dataOut, feedFilter, fetched, before>>
    /\ call \in pendingInserts
    /\ pendingInserts' = pendingInserts \ {call}
    /\ IF insertConfessionReturns(~ok)
       THEN /\ remote' = InsertRow(remote, call.confession)
            /\ events' = events \cup {ToRow(call.confession)}
            /\ userSession' = addXP(userSession, XP_POST)
            /\ SwitchTo("home")
            /\ UNCHANGED <<confessions, alerts>>
       ELSE /\ confessions' = SelectSeq(confessions, LAMBDA c : c.id # call.confession.id)
            /\ alerts' = Append(alerts, PostFailed)
            /\ UNCHANGED <<remote, events, userSession, activeTab, mediaVars>>
    /\ localStorage' = SaveSession(userSession')
    /\ UNCHANGED <<isLoading, searchQuery, isModalOpen, isAnalyzing, pendingAnalysis,
                   pendingUpdates, nextId, loaded, awards>>

setActiveTab(tab) ==
    /\ UNCHANGED <<aiIn, aiOut, dataOut, feedFilter, events, fetched, alerts, before>>
    /\ ~isLoading
    /\ SwitchTo(tab)
    /\ UNCHANGED <<remote, localStorage, isLoading, confessions, userSession,
                   searchQuery, isModalOpen, isAnalyzing, pendingAnalysis, pendingInserts,
                   pendingUpdates, nextId, loaded, awards>>

CommentTexts == {<<"a">>}

ReactInputs == {"love", "funny"}

Load == \E ok \in BOOLEAN : loadData(ok)
React == \E id \in Ids(confessions), type \in ReactInputs : handleReact(id, type)
Comment == \E id \in Ids(confessions), text \in CommentTexts : handleComment(id, text)
Vote == \E id \in Ids(confessions), o \in {"opt_0", "opt_1"} : handleVote(id, o)
UpdateDone == \E call \in pendingUpdates, ok \in BOOLEAN : updateConfession(call, ok)
Submit == \E form \in Forms : handleSubmit(form)
Analysed ==
    \E a \in pendingAnalysis, response \in AIResponses, proceed \in BOOLEAN :
        handleSubmitResume(a, response, proceed)
InsertDone == \E call \in pendingInserts, ok \in BOOLEAN : insertConfession(call, ok)
SwitchTab == \E tab \in {"home", "search"} : setActiveTab(tab)

\* the whole application: every handler, each over a few of its inputs
Init == InitWith({Table(1, 0, 0)}, {<<>>, <<Voted>>})
Next ==
    \/ Load
    \/ \E type \in {"love", "funny"} : handleReact(1, type)
    \/ \E text \in CommentTexts : handleComment(2, text)
    \/ Vote
    \/ UpdateDone
    \/ openModal
    \/ onClose
    \/ handleSubmit(Form("text", <<"a", "b">>, Undefined, Undefined, <<<<>>, <<>>>>))
    \/ \E a \in pendingAnalysis, response \in AIResponses :
          handleSubmitResume(a, response, TRUE)
    \/ InsertDone

Spec == Init /\ [][Next]_vars

\* reactions only, over every seeded tally and a session with or without a
\* stored reaction
InitReact ==
    InitWith({Table(love, funny, 0) : love \in 0..MaxTally, funny \in 0..MaxTally},
             {<<>>, <<Reacted>>})
NextReact == Load \/ React \/ UpdateDone
SpecReact == InitReact /\ [][NextReact]_vars

\* votes and comments
InitVote == InitWith({Table(0, 0, votes) : votes \in 0..MaxTally}, {<<>>, <<Voted>>})
NextVote == Load \/ Vote \/ Comment \/ UpdateDone
SpecVote == InitVote /\ [][NextVote]_vars

\* posting
InitPost == InitWith({Table(0, 0, 0)}, {<<>>, <<Reacted>>})
NextPost == Load \/ openModal \/ onClose \/ Submit \/ Analysed \/ InsertDone \/ SwitchTab
SpecPost == InitPost /\ [][NextPost]_vars

\* the matchmaker tab: the camera and the controls
mmCameraDone ==
    \E request \in mediaDevices.requests, ok \in BOOLEAN : mmCameraResolves(request, ok)
MatchTab == \E tab \in {"home", "matchmaker"} : setActiveTab(tab)
InitMatch == InitWith({Table(0, 0, 0)}, {<<>>})
NextMatch == Load \/ MatchTab \/ mmCameraDone \/ togglePower \/ cycleFilter
SpecMatch == InitMatch /\ [][NextMatch]_vars

\* the matchmaker tab: taking, styling and keeping a photo
mmStyleDone ==
    \E call \in pendingStyles, response \in StyleResponses : styleResolves(call, response)
NextStyle ==
    \/ Load
    \/ MatchTab
    \/ mmCameraDone
    \/ togglePower
    \/ takePhoto
    \/ ejectTimeout
    \/ mmStyleDone
    \/ handleDrop
SpecStyle == InitMatch /\ [][NextStyle]_vars

\* the promise of generateContent settles, and the 1000 ms timeout runs
SpecStyleLive == SpecStyle /\ WF_vars(mmStyleDone) /\ WF_vars(ejectTimeout)

\* the feed, over lists that loading and realtime inserts build
FeedTable(timestamp, love, fire) ==
    (1 :> [SeedText(love, 0) EXCEPT !.timestamp = timestamp])
    @@ (2 :> [SeedPoll(0) EXCEPT !.reactions = [ZeroReactions EXCEPT !["fire"] = fire]])
SetFeedFilter == \E f \in FeedFilters : setFeedFilter(f)
OtherPosts == \E love \in 0..MaxTally : otherClientPosts(love)
RealtimeDone == \E row \in events : realtimeInsert(row)
InitFeed ==
    InitWith({FeedTable(timestamp, love, fire) :
                 timestamp \in {1, 2, 5}, love \in 0..MaxTally, fire \in 0..MaxTally},
             {<<>>})
NextFeed == Load \/ SetFeedFilter \/ OtherPosts \/ RealtimeDone
SpecFeed == InitFeed /\ [][NextFeed]_vars

\* a backend with no row yet, other clients posting, and the threads below posts
FetchServed == \E ok \in BOOLEAN : fetchServed(ok)
InitRealtime == InitFrom({<<>>}, {<<>>}, {<<>>}, 1)
NextRealtime == FetchServed \/ Load \/ OtherPosts \/ RealtimeDone \/ Comment \/ UpdateDone
SpecRealtime == InitRealtime /\ [][NextRealtime]_vars

\* posts of this client and of another, and the INSERT events of both
InitEcho == InitWith({Table(0, 0, 0)}, {<<>>})
NextEcho ==
    \/ FetchServed \/ Load \/ openModal \/ Submit \/ Analysed \/ InsertDone
    \/ OtherPosts \/ RealtimeDone
SpecEcho == InitEcho /\ [][NextEcho]_vars

\* two clients reacting on the same rows
ReactOnFirst == \E type \in ReactInputs : handleReact(1, type)
OtherReacts == otherClientReacts(1, "funny")
InitRace == InitWith({Table(0, 0, 0)}, {<<>>})
NextRace == Load \/ ReactOnFirst \/ OtherReacts \/ UpdateDone
SpecRace == InitRace /\ [][NextRace]_vars

\* the matchmaker tab: the gallery, with a photo kept from an earlier visit
OldPhoto == [id |-> 1, url |-> OriginalCapture, filter |-> "sketch"]
DeletePhoto == \E id \in 1..(3 + MaxIds) : deletePhoto(id)
InitGallery == InitStored({Table(0, 0, 0)}, {<<>>}, {<<OldPhoto>>})
NextGallery == NextStyle \/ DeletePhoto
SpecGallery == InitGallery /\ [][NextGallery]_vars

\* the recorders of the create-post modal
vrCameraDone ==
    \E request \in mediaDevices.requests, ok \in BOOLEAN : vrCameraResolves(request, ok)
vrReadsDone == \E read \in pendingReads : vrReadDone(read)
arMicrophoneDone ==
    \E request \in mediaDevices.requests, ok \in BOOLEAN : arMicrophoneResolves(request, ok)
arReadsDone == \E read \in pendingReads : arReadDone(read)
NextRecord ==
    \/ Load
    \/ openModal
    \/ onClose
    \/ showVideoRecorder
    \/ vrCameraDone
    \/ vrStartRecording
    \/ vrStopRecording
    \/ vrReadsDone
    \/ vrCancel
    \/ showAudioRecorder
    \/ arStartRecording
    \/ arMicrophoneDone
    \/ arStopRecording
    \/ arReadsDone
    \/ arCancel
SpecRecord == InitMatch /\ [][NextRecord]_vars

\* a clip recorded in the video recorder, second by second
NextClip ==
    \/ Load \/ openModal \/ showVideoRecorder \/ vrCameraDone \/ vrStartRecording
    \/ vrTick \/ vrStopRecording \/ vrReadsDone \/ vrCancel
SpecClip == InitMatch /\ [][NextClip]_vars

\* ------------------------------------------------------------------ search
MaxLen == 2

SearchChars == {"a", "A", " "}
Strings(n) == UNION {[1..k -> SearchChars] : k \in 0..n}

\* a slip of searchResults: the tags compared as they are
searchResultsTagsAsIs(list, query) ==
    IF trim(query) = <<>> THEN <<>>
    ELSE LET lowerQ == toLowerCase(query)
         IN SelectSeq(list, LAMBDA c :
                \/ includes(toLowerCase(c.text), lowerQ)
                \/ \E i \in 1..Len(c.tags) : includes(c.tags[i], lowerQ))

\* App: searchResults
searchResults(list, query) ==
    IF trim(query) = <<>> THEN <<>>
    ELSE LET lowerQ == toLowerCase(query)
         IN SelectSeq(list, LAMBDA c :
                \/ includes(toLowerCase(c.text), lowerQ)
                \/ \E i \in 1..Len(c.tags) : includes(toLowerCase(c.tags[i]), lowerQ))

\* the search box's onChange, and a click on a trending tag
setSearchQuery(q) ==
    /\ ~isLoading
    /\ searchQuery' = q
    /\ UNCHANGED <<remote, localStorage, isLoading, confessions, userSession, activeTab,
                   isModalOpen, isAnalyzing, pendingAnalysis, pendingInserts,
                   pendingUpdates, nextId, loaded, awards, aiIn, aiOut, dataOut, feedFilter, events, fetched,
                   alerts, before, mediaVars>>

\* a loaded list of two confessions: one found by its text, one by its tag
SearchTable(text, tag) ==
    (1 :> [SeedText(0, 0) EXCEPT !.text = text, !.tags = <<>>])
    @@ (2 :> [SeedPoll(0) EXCEPT !.text = <<"b", " ", "b">>, !.tags = << <<"b">>, tag >>])

InitSearch ==
    /\ dataOut = <<>>
    /\ feedFilter = "all"
    /\ events = {}
    /\ fetched = <<>>
    /\ alerts = <<>>
    /\ before = <<>>
    /\ matchmaker = MatchmakerOff
    /\ videoRecorder = VideoRecorderOff
    /\ audioRecorder = AudioRecorderOff
    /\ mediaDevices = NoMedia
    /\ timers = {}
    /\ pendingStyles = {}
    /\ pendingReads = {}
    /\ polaroids = <<>>
    /\ remote \in {SearchTable(text, tag) : text \in Strings(MaxLen), tag \in Strings(MaxLen)}
    /\ localStorage = SaveSession(DefaultSession)
    /\ isLoading = FALSE
    /\ confessions = fetchConfessions(remote, TRUE)
    /\ userSession = DefaultSession
    /\ activeTab = "search"
    /\ searchQuery = <<>>
    /\ isModalOpen = FALSE
    /\ isAnalyzing = FALSE
    /\ pendingAnalysis = {}
    /\ pendingInserts = {}
    /\ pendingUpdates = {}
    /\ nextId = 3
    /\ loaded = << [confessions |-> confessions, session |-> userSession] >>
    /\ awards = EmptyMap
    /\ aiIn = <<>>
    /\ aiOut = <<>>
NextSearch == \E q \in Strings(MaxLen) : setSearchQuery(q)
SpecSearch == InitSearch /\ [][NextSearch]_vars

\* ---------------------------------------------------------- trending tags
TRENDING_LIMIT == 10
MaxTags == 2

\* c.tags of every confession, in list order (flatMap)
RECURSIVE FlatTags(_)
FlatTags(list) ==
    IF list = <<>> THEN <<>> ELSE list[1].tags \o FlatTags(Tail(list))

\* the keys of `counts` in the order the forEach first assigns them
RECURSIVE InsertionOrder(_, _)
InsertionOrder(tags, seen) ==
    IF tags = <<>> THEN seen
    ELSE InsertionOrder(Tail(tags),
                        IF \E i \in 1..Len(seen) : seen[i] = tags[1]
                        THEN seen ELSE Append(seen, tags[1]))

\* counts[t] after the forEach
TagCount(tags, t) == Cardinality({i \in 1..Len(tags) : tags[i] = t})

\* a property key that is an array index: a canonical decimal numeral (every
\* numeral of the lengths here is below 2^32 - 1)
IsDigit(ch) == ch \in {"0", "1", "2", "3", "4", "5", "6", "7", "8", "9"}
IsArrayIndex(key) ==
    /\ Len(key) > 0
    /\ \A i \in 1..Len(key) : IsDigit(key[i])
    /\ Len(key) = 1 \/ key[1] # "0"
DigitValue(ch) ==
    CASE ch = "0" -> 0 [] ch = "1" -> 1 [] ch = "2" -> 2 [] ch = "3" -> 3 [] ch = "4" -> 4
      [] ch = "5" -> 5 [] ch = "6" -> 6 [] ch = "7" -> 7 [] ch = "8" -> 8 [] ch = "9" -> 9
RECURSIVE IndexValue(_)
IndexValue(key) ==
    IF key = <<>> THEN 0
    ELSE IndexValue(SubSeq(key, 1, Len(key) - 1)) * 10 + DigitValue(key[Len(key)])

\* the array-index keys in ascending numeric order
RECURSIVE AscendingIndices(_)
AscendingIndices(S) ==
    IF S = {} THEN <<>>
    ELSE LET least == CHOOSE k \in S : \A other \in S : IndexValue(k) <= IndexValue(other)
         IN <<least>> \o AscendingIndices(S \ {least})

\* Object.entries(counts): the array-index keys first, ascending, then the other
\* string keys in the order of their insertion
ObjectEntries(tags) ==
    LET keys == InsertionOrder(tags, <<>>)
        indices == {keys[i] : i \in {j \in 1..Len(keys) : IsArrayIndex(keys[j])}}
        ordered == AscendingIndices(indices)
                     \o SelectSeq(keys, LAMBDA k : ~IsArrayIndex(k))
    IN [i \in 1..Len(ordered) |-> <<ordered[i], TagCount(tags, ordered[i])>>]

\* slice(0, n)
Slice(seq, n) == SubSeq(seq, 1, IF Len(seq) < n THEN Len(seq) ELSE n)

\* App: trendingTags
trendingTags(list) ==
    LET sorted == Slice(SortByCount(ObjectEntries(FlatTags(list))), TRENDING_LIMIT)
    IN [i \in 1..Len(sorted) |-> sorted[i][1]]

\* a click on a trending tag, shown on the search tab while the query is empty
clickTrendingTag(tag) ==
    /\ ~isLoading
    /\ activeTab = "search"
    /\ searchQuery = <<>>
    /\ \E i \in 1..Len(trendingTags(confessions)) : trendingTags(confessions)[i] = tag
    /\ setSearchQuery(tag)

\* tags the backend may hold: words, and numerals such as a year or a room
TagPool == { <<"a">>, <<"b">>, <<"2">>, <<"1", "0">> }
TagLists == UNION {[1..k -> TagPool] : k \in 0..MaxTags}
ManyTags ==
    << <<"c">>, <<"d">>, <<"e">>, <<"f">>, <<"g">>, <<"h">>, <<"i">>, <<"j">>, <<"k">>,
       <<"l">>, <<"m">>, <<"m">> >>
TrendTable(first, second) ==
    (1 :> [SeedText(0, 0) EXCEPT !.tags = second])
    @@ (2 :> [SeedPoll(0) EXCEPT !.tags = first])

InitTrend ==
    InitWith({TrendTable(first, second) : first \in TagLists \cup {ManyTags},
                                          second \in TagLists},
             {<<>>})
ClickTag == \E tag \in TagPool \cup {<<"m">>} : clickTrendingTag(tag)
ClearSearch == setSearchQuery(<<>>)
NextTrend == Load \/ SwitchTab \/ ClickTag \/ ClearSearch
SpecTrend == InitTrend /\ [][NextTrend]_vars

\* ------------------------------------------------- analyzeConfession alone
AnalysisArguments ==
    [text : Strings(1), imageBase64 : {Undefined, "data:image/jpeg;base64,AAAA", "AAAA"},
     response : AIResponses]

callAnalyze(args) ==
    /\ aiIn = <<>>
    /\ aiIn' = <<args>>
    /\ UNCHANGED <<remote, localStorage, isLoading, confessions, userSession, activeTab,
                   searchQuery, isModalOpen, isAnalyzing, pendingAnalysis, pendingInserts,
                   pendingUpdates, nextId, loaded, awards, aiOut, dataOut, feedFilter, events, fetched,
                   alerts, before, mediaVars>>

analyzeResolved ==
    /\ aiIn # <<>>
    /\ aiOut = <<>>
    /\ aiOut' = << analyzeConfession(aiIn[1].text, aiIn[1].imageBase64, aiIn[1].response) >>
    /\ UNCHANGED <<remote, localStorage, isLoading, confessions, userSession, activeTab,
                   searchQuery, isModalOpen, isAnalyzing, pendingAnalysis, pendingInserts,
                   pendingUpdates, nextId, loaded, awards, aiIn, dataOut, feedFilter, events, fetched,
                   alerts, before, mediaVars>>

InitAnalyze == InitWith({Table(0, 0, 0)}, {<<>>})
NextAnalyze == (\E args \in AnalysisArguments : callAnalyze(args)) \/ analyzeResolved
SpecAnalyze == InitAnalyze /\ [][NextAnalyze]_vars

\* ------------------------------------------ the data-access functions alone
\* one call of each function, with the backend reporting an error or none
NewRow == NewConfession(3, 3, Avatar, NewPostData(Form("text", <<"a">>, Undefined,
                                                      Undefined, <<<<>>, <<>>>>), Fallback))
SomeUpdates ==
    { [NoUpdates EXCEPT !.reactions = <<[ZeroReactions EXCEPT !["love"] = 1]>>],
      [NoUpdates EXCEPT !.comments = << <<[id |-> 3, text |-> <<"a">>, timestamp |-> 3,
                                          authorAvatar |-> Avatar]>> >>],
      [NoUpdates EXCEPT !.pollOptions =
          << <<[id |-> "opt_0", text |-> <<"a">>, votes |-> 1],
               [id |-> "opt_1", text |-> <<"b">>, votes |-> 0]>> >>] }

callFetch(error) ==
    /\ dataOut' = << [fn |-> "fetchConfessions", error |-> error, threw |-> FALSE,
                      rows |-> fetchConfessions(remote, ~error), flag |-> FALSE] >>
    /\ UNCHANGED <<remote, localStorage, isLoading, confessions, userSession, activeTab,
                   searchQuery, isModalOpen, isAnalyzing, pendingAnalysis, pendingInserts,
                   pendingUpdates, nextId, loaded, awards, aiIn, aiOut, feedFilter, events, fetched, alerts, before, mediaVars>>

callInsert(confession, error) ==
    /\ confession.id \notin DOMAIN remote
    /\ remote' = IF error THEN remote ELSE InsertRow(remote, confession)
    /\ dataOut' = << [fn |-> "insertConfession", error |-> error, threw |-> FALSE,
                      rows |-> <<>>, flag |-> insertConfessionReturns(error)] >>
    /\ UNCHANGED <<localStorage, isLoading, confessions, userSession, activeTab,
                   searchQuery, isModalOpen, isAnalyzing, pendingAnalysis, pendingInserts,
                   pendingUpdates, nextId, loaded, awards, aiIn, aiOut, feedFilter, events, fetched, alerts, before, mediaVars>>

callUpdate(id, updates, error) ==
    /\ remote' = IF ~error /\ id \in DOMAIN remote
                 THEN [remote EXCEPT ![id] = ApplyUpdate(@, UpdateData(updates))]
                 ELSE remote
    /\ dataOut' = << [fn |-> "updateConfession", error |-> error, threw |-> FALSE,
                      rows |-> <<>>, flag |-> updateConfessionReturns(error)] >>
    /\ UNCHANGED <<localStorage, isLoading, confessions, userSession, activeTab,
                   searchQuery, isModalOpen, isAnalyzing, pendingAnalysis, pendingInserts,
                   pendingUpdates, nextId, loaded, awards, aiIn, aiOut, feedFilter, events, fetched, alerts, before, mediaVars>>

InitData ==
    InitWith({Table(love, funny, votes) :
                 love \in 0..MaxTally, funny \in 0..MaxTally, votes \in 0..MaxTally}, {<<>>})
NextData ==
    \/ \E error \in BOOLEAN : callFetch(error)
    \/ \E error \in BOOLEAN : callInsert(NewRow, error)
    \/ \E id \in 1..2, updates \in SomeUpdates, error \in BOOLEAN :
          callUpdate(id, updates, error)
SpecData == InitData /\ [][NextData]_vars

\* ================================================================== claims
ReactionsIn(list, id) == list[FindIndex(list, id)].reactions
Active(session, id) == Lookup(session.reactedPosts, id)
LoadedList == loaded[1].confessions
LoadedSession == loaded[1].session
OthersSame(id) ==
    /\ Len(confessions') = Len(confessions)
    /\ \A i \in 1..Len(confessions) :
          confessions[i].id # id => confessions'[i] = confessions[i]

\* C1 (as stated): a handleReact with the kind K that is the session's active
\* reaction on the post clears the session's reaction, lowers the post's K tally
\* by exactly one, and leaves its other four tallies and every other post alone.
C1_ToggleOffExact ==
    [][\A id \in Ids(confessions), K \in ReactionType :
         (Active(userSession, id) = K /\ handleReact(id, K)) =>
            LET old == ReactionsIn(confessions, id)
                new == ReactionsIn(confessions', id)
            IN /\ Active(userSession', id) = Undefined
               /\ new[K] = old[K] - 1
               /\ \A k \in ReactionType \ {K} : new[k] = old[k]
               /\ OthersSame(id)]_vars

\* C1 (amended): a handleReact with the kind K that is the session's active
\* reaction on the post clears the session's reaction, lowers the post's K tally
\* by one when it is positive and leaves it at zero when it is zero, and leaves
\* the post's other four tallies and every other post alone.
C1_ToggleOff ==
    [][\A id \in Ids(confessions), K \in ReactionType :
         (Active(userSession, id) = K /\ handleReact(id, K)) =>
            LET old == ReactionsIn(confessions, id)
                new == ReactionsIn(confessions', id)
            IN /\ Active(userSession', id) = Undefined
               /\ new[K] = IF old[K] > 0 THEN old[K] - 1 ELSE 0
               /\ \A k \in ReactionType \ {K} : new[k] = old[k]
               /\ OthersSame(id)]_vars

\* C1 witness: the session loaded with "love" on post 1, whose love tally was
\* positive, has toggled it off.
C1_Witness ==
    /\ loaded # <<>> /\ LoadedList # <<>>
    /\ Active(LoadedSession, 1) = "love"
    /\ ReactionsIn(LoadedList, 1)["love"] > 0
    /\ ReactionsIn(LoadedList, 1)["funny"] > 0
    /\ Active(userSession, 1) = Undefined
    /\ Count(awards, 1) = 0
    /\ ReactionsIn(confessions, 1)["love"] = ReactionsIn(LoadedList, 1)["love"] - 1

\* C2 (as stated): a handleReact with kind B while the session's active reaction
\* on the post is another kind A lowers the A tally by one, raises the B tally by
\* one, keeps the sum of the five tallies, makes B the active reaction and leaves
\* xp alone.
C2_SwapExact ==
    [][\A id \in Ids(confessions), B \in ReactionType :
         LET A == Active(userSession, id)
         IN (A # Undefined /\ A # B /\ handleReact(id, B)) =>
               LET old == ReactionsIn(confessions, id)
                   new == ReactionsIn(confessions', id)
               IN /\ new[A] = old[A] - 1
                  /\ new[B] = old[B] + 1
                  /\ TotalReactions(new) = TotalReactions(old)
                  /\ Active(userSession', id) = B
                  /\ userSession'.xp = userSession.xp]_vars

\* C2 (amended): a handleReact with kind B while the session's active reaction on
\* the post is another kind A raises the B tally by one, makes B the active
\* reaction and leaves xp alone; it lowers the A tally by one and keeps the sum of
\* the five tallies when the A tally is positive, and leaves the A tally at zero,
\* the sum one higher, when the A tally is zero.
C2_Swap ==
    [][\A id \in Ids(confessions), B \in ReactionType :
         LET A == Active(userSession, id)
         IN (A # Undefined /\ A # B /\ handleReact(id, B)) =>
               LET old == ReactionsIn(confessions, id)
                   new == ReactionsIn(confessions', id)
               IN /\ new[A] = IF old[A] > 0 THEN old[A] - 1 ELSE 0
                  /\ new[B] = old[B] + 1
                  /\ \A k \in ReactionType \ {A, B} : new[k] = old[k]
                  /\ TotalReactions(new) =
                        TotalReactions(old) + (IF old[A] > 0 THEN 0 ELSE 1)
                  /\ Active(userSession', id) = B
                  /\ userSession'.xp = userSession.xp]_vars

\* C2 witness: the session loaded with "love" on post 1, whose love tally was
\* positive, has changed it to "funny".
C2_Witness ==
    /\ loaded # <<>> /\ LoadedList # <<>>
    /\ Active(LoadedSession, 1) = "love"
    /\ ReactionsIn(LoadedList, 1)["love"] > 0
    /\ Active(userSession, 1) = "funny"
    /\ Count(awards, 1) = 0
    /\ ReactionsIn(confessions, 1)["love"] = ReactionsIn(LoadedList, 1)["love"] - 1
    /\ ReactionsIn(confessions, 1)["funny"] = ReactionsIn(LoadedList, 1)["funny"] + 1
    /\ userSession.xp = LoadedSession.xp

\* C3: no reaction tally of a confession in the local list is negative.
C3_TalliesNonNegative ==
    \A i \in 1..Len(confessions) : \A k \in ReactionType :
        confessions[i].reactions[k] >= 0

\* C3 witness: a session whose stored reaction ("love" on post 1) disagrees with
\* the loaded tally (love = 0) has cleared that reaction.
C3_Witness ==
    /\ loaded # <<>> /\ LoadedList # <<>>
    /\ Active(LoadedSession, 1) = "love"
    /\ ReactionsIn(LoadedList, 1)["love"] = 0
    /\ Active(userSession, 1) = Undefined
    /\ Count(awards, 1) = 0
    /\ ReactionsIn(confessions, 1)["love"] = 0

\* C5: for a post on which the session had no reaction at load, the session holds
\* at most one reaction kind on it, and the sum of its local tallies is the sum at
\* load plus one while the session has an active reaction on it, plus zero while
\* it has none.
C5_OneContribution ==
    loaded # <<>> =>
        \A i \in 1..Len(confessions) :
            LET id == confessions[i].id
            IN Active(LoadedSession, id) = Undefined =>
                 /\ Active(userSession, id) \in ReactionType \cup {Undefined}
                 /\ TotalReactions(confessions[i].reactions) =
                       TotalReactions(ReactionsIn(LoadedList, id))
                         + (IF Active(userSession, id) # Undefined THEN 1 ELSE 0)

\* C5 witness: on a post with no reaction at load the session has added, cleared,
\* added again and then changed its reaction.
C5_Witness ==
    /\ loaded # <<>> /\ LoadedList # <<>>
    /\ Active(LoadedSession, 1) = Undefined
    /\ Count(awards, 1) = 2
    /\ Active(userSession, 1) = "funny"
    /\ ReactionsIn(confessions, 1)["funny"] = ReactionsIn(LoadedList, 1)["funny"] + 1
    /\ ReactionsIn(LoadedList, 1)["love"] > 0

\* C7 (as stated): on a post the session had no reaction on at load, a
\* handleReact awards +2 exactly when it is the session's first reaction on that
\* post; no later react operation on the post (a change of kind, a clear, an add
\* after a clear) awards anything.
C7_AwardOnlyFirstReaction ==
    [][\A id \in Ids(confessions), type \in ReactionType :
         (Active(LoadedSession, id) = Undefined /\ handleReact(id, type)) =>
            LET first == Active(userSession, id) = Undefined /\ Count(awards, id) = 0
            IN userSession'.xp = userSession.xp + (IF first THEN 2 ELSE 0)]_vars

PollVotes(list, id) ==
    LET options == list[FindIndex(list, id)].pollOptions
    IN [i \in 1..Len(options) |-> options[i].votes]
VotedOption(session, id) == Lookup(session.votedPolls, id)

\* C4: for every listed poll, the option the session has recorded never changes
\* once recorded; a handleVote on a poll the session has a recorded option for
\* changes neither the session (its xp included) nor the list; and the poll's
\* local vote counts are those at load, but one more for the recorded option
\* when it was recorded after load.
C4_VoteCounts ==
    loaded # <<>> =>
        \A n \in 1..Len(confessions) :
            LET id == confessions[n].id
                options == confessions[n].pollOptions
                atLoad == PollVotes(LoadedList, id)
                recorded == VotedOption(userSession, id)
            IN \A i \in 1..Len(options) :
                  options[i].votes =
                     atLoad[i] + (IF /\ recorded = options[i].id
                                     /\ VotedOption(LoadedSession, id) = Undefined
                                  THEN 1 ELSE 0)
C4_VoteOnce ==
    /\ []C4_VoteCounts
    /\ [][\A id \in Ids(confessions) :
            VotedOption(userSession, id) # Undefined =>
               /\ VotedOption(userSession', id) = VotedOption(userSession, id)
               /\ \A o \in {"opt_0", "opt_1"} :
                     handleVote(id, o) =>
                        userSession' = userSession /\ confessions' = confessions]_vars

\* C4 witness: a session with no recorded option at load has voted opt_1 on
\* poll 2, the update has resolved, and the session holds the +5.
C4_Witness ==
    /\ loaded # <<>> /\ LoadedList # <<>>
    /\ VotedOption(LoadedSession, 2) = Undefined
    /\ VotedOption(userSession, 2) = "opt_1"
    /\ PollVotes(confessions, 2)[2] = PollVotes(LoadedList, 2)[2] + 1
    /\ PollVotes(confessions, 2)[1] = PollVotes(LoadedList, 2)[1]
    /\ PollVotes(LoadedList, 2)[1] > 0
    /\ pendingUpdates = {}
    /\ userSession.xp = LoadedSession.xp + 5

\* C6 (as stated): after load, xp changes only by +20 when a post is inserted, by
\* +2 on the session's first reaction on a post, by +5 on a comment and by +5 on
\* a recorded vote; and the level is always xp div 100, plus one.
C6_LevelOfXp == userSession.level = (userSession.xp \div 100) + 1
C6_XpStep ==
    \/ isLoading
    \/ userSession'.xp = userSession.xp
    \/ /\ userSession'.xp = userSession.xp + 20
       /\ \E call \in pendingInserts : insertConfession(call, TRUE)
    \/ /\ userSession'.xp = userSession.xp + 2
       /\ \E id \in Ids(confessions), type \in ReactionType :
             /\ handleReact(id, type)
             /\ Active(LoadedSession, id) = Undefined
             /\ Active(userSession, id) = Undefined
             /\ Count(awards, id) = 0
    \/ /\ userSession'.xp = userSession.xp + 5
       /\ \E call \in pendingUpdates, ok \in BOOLEAN :
             updateConfession(call, ok) /\ call.updates.comments # <<>>
    \/ /\ userSession'.xp = userSession.xp + 5
       /\ \E id \in Ids(confessions), o \in {"opt_0", "opt_1"} :
             /\ handleVote(id, o)
             /\ VotedOption(userSession, id) = Undefined
             /\ VotedOption(userSession', id) = o
C6_XpAwards == []C6_LevelOfXp /\ [][C6_XpStep]_vars

\* C8: a call of analyzeConfession whose external call failed (it rejected, or
\* resolved with no text, with an empty text or with a text that is not JSON)
\* has not thrown and has returned sentiment neutral, the two tags anonymous and
\* student, colour #64748b and isSafe true, whatever its text and image.
C8_Fallback ==
    (aiOut # <<>> /\ \/ aiIn[1].response.rejected
                     \/ aiIn[1].response.text \in {<<>>, <<"">>, <<"garbage">>}) =>
        /\ ~aiOut[1].threw
        /\ aiOut[1].value.sentiment = "neutral"
        /\ aiOut[1].value.tags = << <<"a","n","o","n","y","m","o","u","s">>,
                                    <<"s","t","u","d","e","n","t">> >>
        /\ aiOut[1].value.colorTheme = "#64748b"
        /\ aiOut[1].value.isSafe = TRUE

\* C8 witness: a call with a text and an image, whose external call rejected,
\* has resolved.
C8_Witness ==
    /\ aiOut # <<>>
    /\ aiIn[1].response.rejected
    /\ aiIn[1].text # <<>>
    /\ aiIn[1].imageBase64 # Undefined

\* C9: when the insert of a text confession with a non-blank body, whose analysis
\* failed, succeeds, the stored row carries the fallback sentiment, emoji, tags,
\* colour and safety flag, no confirm dialog was shown for it, and the session's
\* xp rises by exactly 20.
C9_PostWithFailedAnalysis ==
    [][\A call \in pendingInserts :
         (/\ call.aiFailed
          /\ call.confession.type = "text"
          /\ trim(call.confession.text) # <<>>
          /\ insertConfession(call, TRUE)) =>
            LET row == remote'[call.confession.id]
            IN /\ row.sentiment = "neutral"
               /\ row.emoji = "neutral_face"
               /\ row.tags = << <<"a","n","o","n","y","m","o","u","s">>,
                                <<"s","t","u","d","e","n","t">> >>
               /\ row.color_theme = "#64748b"
               /\ row.is_safe = TRUE
               /\ ~call.asked
               /\ userSession'.xp = userSession.xp + 20]_vars

\* C9 witness: a text confession analysed by the fallback is stored, and the
\* session holds the +20.
C9_Witness ==
    /\ loaded # <<>>
    /\ \E id \in DOMAIN remote :
          /\ id >= 3
          /\ remote[id].type = "text"
          /\ remote[id].sentiment = "neutral"
          /\ remote[id].is_safe
    /\ userSession.xp = LoadedSession.xp + 20

\* the query occurs in the string when letters are compared without their case
SameLetter(x, y) == x = y \/ {x, y} = {"a", "A"}
ContainsIgnoringCase(str, q) ==
    \E i \in 0..(Len(str) - Len(q)) : \A j \in 1..Len(q) : SameLetter(str[i + j], q[j])
Matching(list, q) ==
    SelectSeq(list, LAMBDA c :
        \/ ContainsIgnoringCase(c.text, q)
        \/ \E i \in 1..Len(c.tags) : ContainsIgnoringCase(c.tags[i], q))

\* C10 (as stated): searchResults is the sub-list of the confessions whose text
\* or one of whose tags contains the query, compared without case, in list
\* order; for the empty query it is empty.
C10_SearchExact ==
    searchResults(confessions, searchQuery) =
        IF searchQuery = <<>> THEN <<>> ELSE Matching(confessions, searchQuery)

\* C10 (amended): searchResults is the sub-list of the confessions whose text or
\* one of whose tags contains the query, compared without case, in list order;
\* for a query that is empty or all white space it is empty.
C10_Search ==
    searchResults(confessions, searchQuery) =
        IF \A i \in 1..Len(searchQuery) : searchQuery[i] = " "
        THEN <<>> ELSE Matching(confessions, searchQuery)

\* C10 witness: the query "a" finds one confession by its text "A" and the other
\* by its tag "A" only.
C10_Witness ==
    /\ searchQuery = <<"a">>
    /\ Len(searchResults(confessions, searchQuery)) = 2
    /\ \E i \in 1..Len(confessions) : confessions[i].text = <<"A">>
    /\ \E i \in 1..Len(confessions) : <<"A">> \in {confessions[i].tags[j] : j \in 1..Len(confessions[i].tags)}

\* the distinct tags in the order a scan of the confessions first meets them
FirstSeen(list) == InsertionOrder(FlatTags(list), <<>>)
Occurrences(list, t) == TagCount(FlatTags(list), t)
\* the tags ranked by occurrences, more first, equal ones by first meeting
RankedTags(list) ==
    LET seen == FirstSeen(list)
        Ahead(i, j) == \/ Occurrences(list, seen[i]) > Occurrences(list, seen[j])
                        \/ /\ Occurrences(list, seen[i]) = Occurrences(list, seen[j])
                           /\ i < j
        Rank(i) == Cardinality({j \in 1..Len(seen) : Ahead(j, i)}) + 1
    IN [r \in 1..Len(seen) |-> seen[CHOOSE i \in 1..Len(seen) : Rank(i) = r]]

\* C11 (as stated): trendingTags is the first ten of the tags ranked by their
\* number of occurrences over all confessions, more first, tags with equal
\* counts in the order a scan of the list first meets them - whatever the tag
\* strings are.
C11_Trending ==
    ~isLoading =>
        trendingTags(confessions) =
            SubSeq(RankedTags(confessions), 1,
                   IF Len(RankedTags(confessions)) < 10
                   THEN Len(RankedTags(confessions)) ELSE 10)

\* C12: a call of fetchConfessions, insertConfession or updateConfession never
\* throws; when the backend reported an error, fetchConfessions returned the
\* empty list and the other two returned false; when it reported none,
\* fetchConfessions returned one mapped row for every row of the table, newest
\* first, and the other two returned true.
C12_FailureValues ==
    dataOut # <<>> =>
        LET out == dataOut[1]
        IN /\ ~out.threw
           /\ out.fn = "fetchConfessions" =>
                 IF out.error THEN out.rows = <<>>
                 ELSE /\ {out.rows[i].id : i \in 1..Len(out.rows)} = DOMAIN remote
                      /\ Len(out.rows) = Cardinality(DOMAIN remote)
                      /\ \A i \in 1..Len(out.rows) :
                            /\ out.rows[i].colorTheme = remote[out.rows[i].id].color_theme
                            /\ out.rows[i].pollOptions = remote[out.rows[i].id].poll_options
                            /\ i > 1 => out.rows[i - 1].timestamp >= out.rows[i].timestamp
           /\ out.fn # "fetchConfessions" => out.flag = ~out.error

\* C12 witness: on a table of three rows, a fetch for which the backend reported
\* an error has returned.
C12_Witness ==
    /\ dataOut # <<>>
    /\ dataOut[1].fn = "fetchConfessions"
    /\ dataOut[1].error
    /\ Cardinality(DOMAIN remote) = 3

EntryOf(list, id) == list[FindIndex(list, id)]

\* C13 (as stated): when updateConfession returns false for a reaction, a comment
\* or a poll vote, then once the call has resolved the confession's tallies,
\* comments and poll options and the session's reaction map, vote map and xp are
\* what they were before the user action.
C13_Rollback ==
    [][\A call \in pendingUpdates :
         (before # <<>> /\ updateConfession(call, FALSE)) =>
            LET was == EntryOf(before[1].confessions, call.id)
                now == EntryOf(confessions', call.id)
            IN /\ now.reactions = was.reactions
               /\ now.comments = was.comments
               /\ now.pollOptions = was.pollOptions
               /\ userSession'.reactedPosts = before[1].session.reactedPosts
               /\ userSession'.votedPolls = before[1].session.votedPolls
               /\ userSession'.xp = before[1].session.xp]_vars

\* C14: when insertConfession returns false, handlePost alerts the user, the new
\* confession is not in the local list, and the session's xp and the active tab
\* are unchanged.
C14_InsertFailure ==
    [][\A call \in pendingInserts :
         insertConfession(call, FALSE) =>
            /\ alerts' = Append(alerts, "Failed to post confession. Please try again.")
            /\ call.confession.id \notin Ids(confessions')
            /\ userSession'.xp = userSession.xp
            /\ userSession'.level = userSession.level
            /\ activeTab' = activeTab]_vars

\* C14 witness: an insert has failed while the search tab was showing: one alert,
\* the tab still search, the xp that of the load.
C14_Witness ==
    /\ loaded # <<>>
    /\ Len(alerts) = 1
    /\ activeTab = "search"
    /\ pendingInserts = {} /\ pendingAnalysis = {}
    /\ userSession.xp = LoadedSession.xp
    /\ DOMAIN remote = {1, 2}

\* the local entry shows what the call sends
Reflects(list, call) ==
    /\ FindIndex(list, call.id) # 0
    /\ call.updates.reactions # <<>> =>
          EntryOf(list, call.id).reactions = call.updates.reactions[1]
    /\ call.updates.comments # <<>> =>
          EntryOf(list, call.id).comments = call.updates.comments[1]
    /\ call.updates.pollOptions # <<>> =>
          EntryOf(list, call.id).pollOptions = call.updates.pollOptions[1]

\* C15 (as stated): in the state in which a handler has issued its remote call -
\* updateConfession for a reaction, a comment or a vote, insertConfession for a
\* new post - the local list already shows the change: the updated entry, or the
\* new confession.
C15_OptimisticUpdates ==
    [][\A call \in pendingUpdates' \ pendingUpdates : Reflects(confessions', call)]_vars
C15_Optimistic ==
    /\ C15_OptimisticUpdates
    /\ [][\A call \in pendingInserts' \ pendingInserts :
            call.confession.id \in Ids(confessions')]_vars

\* the live streams the view `owner` acquired
LiveStreams(owner) == {s \in mediaDevices.streams : s.owner = owner}

\* C16 (as stated): once the matchmaker view has been left, and whenever it
\* is mounted with the camera off and no acquisition under way, no camera
\* stream that the view acquired is still live.
C16_CameraReleased ==
    /\ ~matchmaker.mounted => LiveStreams("matchmaker") = {}
    /\ (/\ matchmaker.mounted
        /\ ~matchmaker.isCameraOn
        /\ \A r \in mediaDevices.requests : r.owner # "matchmaker")
          => LiveStreams("matchmaker") = {}

\* C17 (as stated): the mounted matchmaker view never has more than one live
\* camera stream, and a live stream of the view is the one streamRef holds.
C17_OneStream ==
    LET mine == {s \in LiveStreams("matchmaker") : s.attached}
    IN /\ Cardinality(mine) <= 1
       /\ \A s \in mine : matchmaker.streamRef = s.n

\* C18 (as stated): once the video recorder is unmounted and nothing it started
\* is still to resolve, no stream it acquired is live.
C18_VideoReleased ==
    (/\ ~videoRecorder.mounted
     /\ \A r \in mediaDevices.requests : r.owner # "video"
     /\ \A r \in pendingReads : r.owner # "video")
       => LiveStreams("video") = {}

\* C19 (as stated): once the audio recorder is unmounted and no microphone
\* request is still to resolve, no stream it acquired is live and no interval
\* it started is running.
C19_AudioReleased ==
    (/\ ~audioRecorder.mounted
     /\ \A r \in mediaDevices.requests : r.owner # "audio")
       => /\ LiveStreams("audio") = {}
          /\ \A t \in timers : t.owner # "audio"

\* the external call failed or brought no inline image part
StyleFailed(response) ==
    \/ response.rejected
    \/ response.candidates = <<>>
    \/ \A i \in 1..Len(response.candidates[1]) :
          response.candidates[1][i].inlineData = <<>>

\* C20: generateStyledImage throws exactly on a failed call or a response
\* without an inline image part; when the styling call of a mounted view settles,
\* isProcessing becomes false and the current photo is non-null - the original
\* capture on failure, the styled image on success; and a view that stays
\* mounted while processing does reach that state.
C20_StyleThrows ==
    \A response \in StyleResponses :
        \A style \in FilterType :
            generateStyledImage(OriginalCapture, style, response).threw
               <=> StyleFailed(response)
C20_StyleSettles ==
    [][\A call \in pendingStyles, response \in StyleResponses :
          styleResolves(call, response) =>
             /\ ~matchmaker'.isProcessing
             /\ matchmaker'.currentPhoto # NoPhoto
             /\ StyleFailed(response) => matchmaker'.currentPhoto = call.original
             /\ ~StyleFailed(response) => matchmaker'.currentPhoto # call.original]_vars
C20_StylingFallback ==
    /\ []C20_StyleThrows
    /\ C20_StyleSettles
    /\ (matchmaker.mounted /\ matchmaker.isProcessing)
          ~> (\/ ~matchmaker.mounted
              \/ ~matchmaker.isProcessing /\ matchmaker.currentPhoto # NoPhoto)
C20_Witness ==
    /\ matchmaker.mounted
    /\ ~matchmaker.isProcessing
    /\ matchmaker.tempPhoto = OriginalCapture
    /\ matchmaker.currentPhoto = OriginalCapture
    /\ pendingStyles = {}

\* C21: an insertConfession call is issued only in the step in which the
\* analysis of its submission resolves, and for an unsafe verdict only when the
\* confirm dialog was accepted; when it is declined nothing is posted, the
\* modal is left as it is (open, for the modal that submitted) and that modal's
\* analysing flag is false.
C21_GateOrdering ==
    /\ [][pendingInserts' \ pendingInserts # {} =>
            \E a \in pendingAnalysis : a \notin pendingAnalysis']_vars
    /\ [][\A a \in pendingAnalysis, response \in AIResponses, proceed \in BOOLEAN :
            handleSubmitResume(a, response, proceed) =>
               LET aiResult == analyzeConfession(a.form.text, a.form.image, response).value
               IN /\ pendingInserts' # pendingInserts => (aiResult.isSafe \/ proceed)
                  /\ \A call \in pendingInserts' \ pendingInserts :
                        call.asked <=> ~aiResult.isSafe
                  /\ (~aiResult.isSafe /\ ~proceed) =>
                        /\ pendingInserts' = pendingInserts
                        /\ remote' = remote /\ confessions' = confessions
                        /\ isModalOpen' = isModalOpen
                        /\ a.mounted => (isModalOpen' /\ ~isAnalyzing')]_vars
C21_Witness ==
    /\ \E call \in pendingInserts : call.asked
    /\ ~isModalOpen
    /\ ~isAnalyzing

\* the ids of a gallery
PhotoIds(saved) == {saved[i].id : i \in 1..Len(saved)}

\* C22: while the matchmaker view is mounted its gallery equals the stored one
\* and no two photos share an id; a save puts exactly one entry, holding the
\* current photo, in front of both and keeps the rest; a delete takes exactly
\* the entry with the given id out of both and keeps the rest in place.
C22_GalleryPersistence ==
    /\ [](matchmaker.mounted =>
            /\ matchmaker.savedPhotos = polaroids
            /\ Cardinality(PhotoIds(polaroids)) = Len(polaroids))
    /\ [][handleDrop =>
            /\ Len(polaroids') = Len(polaroids) + 1
            /\ polaroids'[1].url = matchmaker.currentPhoto
            /\ Tail(polaroids') = polaroids
            /\ matchmaker'.savedPhotos = polaroids']_vars
    /\ [][\A id \in PhotoIds(polaroids) :
            deletePhoto(id) =>
               /\ \E i \in 1..Len(polaroids) :
                     /\ polaroids[i].id = id
                     /\ polaroids' = SubSeq(polaroids, 1, i - 1)
                                       \o SubSeq(polaroids, i + 1, Len(polaroids))
               /\ matchmaker'.savedPhotos = polaroids']_vars
C22_Witness ==
    /\ matchmaker.mounted
    /\ Len(polaroids) = 1
    /\ polaroids[1].id = 3
    /\ matchmaker.savedPhotos = polaroids

\* how often x occurs in a list
Times(list, x) == Cardinality({i \in 1..Len(list) : list[i] = x})

\* one list is the other, rearranged
Rearranged(a, b) ==
    /\ Len(a) = Len(b)
    /\ \A i \in 1..Len(b) : Times(a, b[i]) = Times(b, b[i])

\* the five tallies of a confession, added up
FiveTallies(c) ==
    c.reactions["love"] + c.reactions["funny"] + c.reactions["sad"]
       + c.reactions["shock"] + c.reactions["fire"]

NewestFirst(feed) ==
    \A i, j \in 1..Len(feed) : i < j => feed[i].timestamp >= feed[j].timestamp

\* C23: the feed shown for the list and the filter of the state: popular is the
\* list rearranged, by descending sum of the five tallies; polls is the polls of
\* the list rearranged, newest first; all is the list rearranged, newest first.
C23_FeedViews ==
    LET feed == feedConfessions(confessions, feedFilter)
    IN CASE feedFilter = "popular" ->
              /\ Rearranged(feed, confessions)
              /\ \A i, j \in 1..Len(feed) : i < j => FiveTallies(feed[i]) >= FiveTallies(feed[j])
         [] feedFilter = "polls" ->
              /\ Rearranged(feed, SelectSeq(confessions, LAMBDA c : c.type = "poll"))
              /\ \A i \in 1..Len(feed) : feed[i].type = "poll"
              /\ NewestFirst(feed)
         [] feedFilter = "all" ->
              /\ Rearranged(feed, confessions)
              /\ NewestFirst(feed)
C23_Witness ==
    /\ feedFilter = "popular"
    /\ Len(confessions) = 3
    /\ feedConfessions(confessions, feedFilter) # confessions
    /\ feedConfessions(confessions, "all") # confessions
    /\ \E i \in 1..3 : confessions[i].reactions["fire"] > confessions[i].reactions["love"]

\* C24: a confession that insertConfession has written reads back, through the
\* mapping of fetchConfessions and of the realtime subscription, equal to the
\* inserted confession on every field, media payload and post kind included.
C24_RowRoundTrip ==
    [][\A call \in pendingInserts :
          insertConfession(call, TRUE) =>
             /\ FromRow(remote'[call.confession.id]) = call.confession
             /\ \E row \in events' : FromRow(row) = call.confession]_vars

\* C25: a comment in the local comment list of a listed confession stays in it,
\* at the same position, for as long as the confession is listed; and
\* handleComment extends the list of the confession it finds by exactly the new
\* comment, at the end.
C25_AppendOnly ==
    /\ [][\A i \in 1..Len(confessions) : \A k \in 1..Len(confessions[i].comments) :
            confessions[i].id \in Ids(confessions') =>
               \E j \in 1..Len(confessions') :
                  /\ confessions'[j].id = confessions[i].id
                  /\ Len(confessions'[j].comments) >= k
                  /\ confessions'[j].comments[k] = confessions[i].comments[k]]_vars
    /\ [][\A id \in Ids(confessions), text \in CommentTexts :
            handleComment(id, text) =>
               LET old == confessions[FindIndex(confessions, id)].comments
                   new == confessions'[FindIndex(confessions', id)].comments
               IN /\ Len(new) = Len(old) + 1
                  /\ SubSeq(new, 1, Len(old)) = old
                  /\ new[Len(new)].text = text]_vars

\* C29: no confession id is listed twice.
C29_NoDuplicates ==
    \A i, j \in 1..Len(confessions) : confessions[i].id = confessions[j].id => i = j

\* C30: a confession the subscription has delivered is listed in every later
\* state, also after the initial fetch has resolved.
C30_NoLostInsert ==
    [][\A id \in Ids(confessions) : id \in Ids(confessions')]_vars

\* C26: a reaction update that resolves leaves the row with exactly the tally it
\* carries, whatever an update resolved before it wrote; it leaves the other
\* calls in flight as they are and issues none; one that fails is not sent again
\* and leaves the row as it is.
C26_LastUpdateWins ==
    [][\A call \in pendingUpdates :
          call.updates.reactions # <<>> =>
             /\ updateConfession(call, TRUE) =>
                   /\ remote'[call.id].reactions = call.updates.reactions[1]
                   /\ pendingUpdates' = pendingUpdates \ {call}
                   /\ \A id \in DOMAIN remote \ {call.id} : remote'[id] = remote[id]
             /\ updateConfession(call, FALSE) =>
                   /\ remote' = remote
                   /\ pendingUpdates' = pendingUpdates \ {call}]_vars
\* both clients' updates are resolved; the row holds the other client's funny,
\* computed from the tally before this client's love, and not this client's love
C26_Witness ==
    /\ pendingUpdates = {}
    /\ Lookup(userSession.reactedPosts, 1) = "love"
    /\ confessions[FindIndex(confessions, 1)].reactions["love"] = 1
    /\ remote[1].reactions["love"] = 0
    /\ remote[1].reactions["funny"] = 1

\* C27: an analysis that resolves safe after its modal was closed still issues
\* the remote insert of the confession; when that insert succeeds the row is
\* stored, the session gains 20 points and the active tab is home.
C27_NoCancellation ==
    /\ [][\A a \in pendingAnalysis, response \in AIResponses, proceed \in BOOLEAN :
            (~a.mounted /\ handleSubmitResume(a, response, proceed)) =>
               LET analysis == analyzeConfession(a.form.text, a.form.image, response)
               IN (~analysis.threw /\ analysis.value.isSafe) =>
                     \E call \in pendingInserts' \ pendingInserts :
                        /\ ~call.mounted
                        /\ call.confession.text = a.form.text
                        /\ call.confession.type = a.form.postType]_vars
    /\ [][\A call \in pendingInserts :
            (~call.mounted /\ insertConfession(call, TRUE)) =>
               /\ remote'[call.confession.id] = ToRow(call.confession)
               /\ userSession'.xp = userSession.xp + XP_POST
               /\ activeTab' = "home"]_vars
C27_Witness ==
    /\ ~isModalOpen
    /\ \E call \in pendingInserts : ~call.mounted /\ ~call.asked /\ call.confession.isSafe

\* C28: when the interval fires with the count at 10 the recording is stopped:
\* the recording flag becomes false, the interval is cleared and the recorder's
\* onstop has the clip read; and the displayed time never exceeds 10.
C28_AutoStop ==
    /\ [](videoRecorder.recordingTime <= RECORDING_LIMIT)
    /\ [][(vrTick /\ videoRecorder.recordingTime >= RECORDING_LIMIT) =>
            /\ ~videoRecorder'.isRecording
            /\ [owner |-> "video", n |-> videoRecorder.recorder] \notin timers'
            /\ \E read \in pendingReads' : read.owner = "video" /\ read.n = videoRecorder.recorder]_vars

====
